---- MODULE Spec2Model ----
(***************************************************************************)
(* Model of the sol-base-bot arbitrage engine.                             *)
(*                                                                         *)
(* The specifications share the variables:                                 *)
(*   Spec     the event-driven server: EventCoordinator (single-flight     *)
(*            flag, cooldown, price tracker), the POST /trigger-analysis   *)
(*            route, and the analysis runs they start, seen from outside   *)
(*            (started, in flight, ended with a result);                   *)
(*   SpecExec one run of runArbitrageAnalysis seen from inside: fetch,     *)
(*            analyze, simulate, the two legs of executeArbitrage, the     *)
(*            notification;                                                *)
(*   SpecConfirm, SpecTracker, SpecFeed, SpecAnalyzer, SpecLegs,           *)
(*   SpecPrices, SpecStop                                                  *)
(*            the transaction confirmation loop, the PriceTracker, the     *)
(*            two polls, analyzeOpportunity, the legs of                   *)
(*            simulateArbitrage, the PriceFetcher and the polling          *)
(*            subscription with EventCoordinator.stop, each on its own.    *)
(*                                                                         *)
(* Node runs one handler at a time up to its next await, so every action   *)
(* is the code between two awaits.                                         *)
(***************************************************************************)
EXTENDS Integers, Naturals, Sequences, FiniteSets, TLC

(***************************************************************************)
(* Bounds of the model.                                                    *)
(***************************************************************************)
\* analysisCooldownMs (ANALYSIS_COOLDOWN_MS), in clock ticks of the model
analysisCooldownMs == 2
\* the clock runs from analysisCooldownMs to analysisCooldownMs + ClockSpan
ClockSpan == 2
\* concurrent POST /trigger-analysis requests
MaxHttp == 1
\* callback invocations in flight at once (only a broken guard reaches it)
MaxInflight == 2
\* events counted per cycle by the history variable eventsDuringCycle
MaxCounted == 2

MaxTime == analysisCooldownMs + ClockSpan

(***************************************************************************)
(* Inputs.  Amounts are chosen so that Number(a) / Number(b) is exact.     *)
(***************************************************************************)
SolAmounts == {2}
TokenAmounts == {1, 2}
UsdcAmounts == {0, 2}
BaseTokenAmounts == {0, 1, 2}
Chains == {"solana", "base"}

\* results of one runArbitrageAnalysis call
RunResults == {"no_opportunity", "rejected", "not_executed", "executed", "threw"}

VARIABLES
    now,                \* Date.now()
    isStarted,          \* server.ts: monitoring started
    callbackKind,       \* which callback onArbitrageTrigger registered
    isAnalysisRunning,  \* EventCoordinator.isAnalysisRunning
    lastAnalysisTime,   \* EventCoordinator.lastAnalysisTime
    currentSnapshot,    \* PriceTracker.currentSnapshot
    baselineSnapshot,   \* PriceTracker.baselineSnapshot
    inflightEvent,      \* trigger callback invocations in flight
    inflightHttp,       \* runs started by POST /trigger-analysis in flight
    \* history variables
    lastEv,             \* the last trade event handled and what became of it
    lastStart,          \* when the last coordinator cycle started
    lastEnd,            \* when and how the last coordinator cycle ended
    handlerEscaped,     \* an exception left triggerAnalysisIfReady
    eventsDuringCycle,  \* events that arrived during the cycle in flight
    \* one run of runArbitrageAnalysis
    pc,                 \* where the run is
    runCfg,             \* autoExecute and the configured private keys
    opp,                \* what analyzeOpportunity returned
    sim,                \* what simulateArbitrage returned
    execCalls,          \* calls of executeArbitrage in the run
    buy,                \* state of the buy leg
    sell,               \* state of the sell leg
    submissions,        \* trades submitted to a chain, in order
    execOutcome,        \* how executeArbitrage ended
    notified,           \* notification calls and the reason of the failure one
    runResult,          \* what runArbitrageAnalysis returned
    market,             \* what fetchMarketData returned
    execError,          \* the error executeArbitrage threw
    \* one call of sendAndConfirmTransactionWithPolling
    txPc,               \* where the call is
    commitment,         \* options.commitment
    maxRetries,         \* the poll budget of the call
    iPoll,              \* the loop counter i
    polled,             \* the statuses getSignatureStatus reported, in order
    \* the PriceTracker called on its own
    callbacks,          \* PriceTracker.callbacks (how many are registered)
    trk,                \* history: the last call of the tracker and its result
    \* the two polling subscriptions
    sigCount,           \* signatures of the queried address, numbered by age
    processedSignatures,\* the Set of pollForTradeEvents, in insertion order
    swapBlocks,         \* swap transactions of the pair in each Base block
    processedTxHashes,  \* the Set of pollForSwapEvents, in insertion order
    delivered,          \* history: callback invocations per transaction id
    \* one call of analyzeOpportunity
    marketStats,        \* the snapshot handed to analyzeOpportunity
    analyzerConfig,     \* MIN_PROFIT_THRESHOLD, TRADE_SIZE_USD, SOLANA_SOL_PRICE_USD
    solver,             \* the locals of findEquilibriumTradeSize
    analysis,           \* where the call is and what it returned
    \* simulations of one Opportunity
    venueState,         \* the reserves of the two venues on the chains
    legSim,             \* the Opportunity and what simulateArbitrage reported
    \* PriceFetcher
    priceCache,         \* PriceFetcher.cache
    lastFetchTime,      \* PriceFetcher.lastFetchTime
    requests,           \* calls of fetchPrices awaiting axios.get
    priceClock,         \* Date.now() of the PriceFetcher
    priceCall,          \* history: the last step of fetchPrices or clearCache
    \* the polling subscription of the EventCoordinator
    solanaSubscription, \* EventCoordinator.solanaSubscription
    isUnsubscribed,     \* subscribeToTradeEvents: isUnsubscribed
    pollingActive,      \* subscribeToTradeEvents: pollingActive
    poller,             \* where startPolling is and the transactions left
    stopLog             \* history: what happened after unsubscribe returned

coordVars == <<now, isStarted, callbackKind, isAnalysisRunning, lastAnalysisTime,
               currentSnapshot, baselineSnapshot, inflightEvent, inflightHttp,
               lastEv, lastStart, lastEnd, handlerEscaped,
               eventsDuringCycle>>

execVars == <<pc, runCfg, opp, sim, execCalls, buy, sell, submissions, execOutcome,
              notified, runResult, market, execError>>

txVars == <<txPc, commitment, maxRetries, iPoll, polled>>

\* the variables of the library functions modelled on their own
trackerVars == <<callbacks, trk>>

\* the variables of the library functions modelled on their own
feedVars == <<sigCount, processedSignatures, swapBlocks, processedTxHashes,
              delivered>>

\* the variables of the opportunity analyzer modelled on its own
analyzerVars == <<marketStats, analyzerConfig, solver, analysis>>

\* the variables of the simulated legs modelled on their own
legVars == <<venueState, legSim>>

\* the variables of the PriceFetcher modelled on its own
priceVars == <<priceCache, lastFetchTime, requests, priceClock, priceCall>>

\* the variables of the polling subscription
subVars == <<solanaSubscription, isUnsubscribed, pollingActive, poller, stopLog>>

\* the variables of the functions added to the model later
extraVars == <<legVars, priceVars, subVars>>

\* the variables of the library functions modelled on their own
libVars == <<txVars, trackerVars, feedVars, analyzerVars, extraVars>>
\* what an action of one library function leaves alone
NotTx == <<coordVars, execVars, trackerVars, feedVars, analyzerVars, extraVars>>
NotFeed == <<coordVars, execVars, txVars, trackerVars, analyzerVars, extraVars>>
NotAnalyzer == <<coordVars, execVars, txVars, trackerVars, feedVars, extraVars>>
\* the coordinator's variables but the two snapshots of its PriceTracker
NotSnapshots ==
    <<now, isStarted, callbackKind, isAnalysisRunning, lastAnalysisTime,
      inflightEvent, inflightHttp, lastEv, lastStart, lastEnd, handlerEscaped,
      eventsDuringCycle>>
NotTracker == <<NotSnapshots, execVars, txVars, feedVars, analyzerVars, extraVars>>
NotLegs == <<coordVars, execVars, txVars, trackerVars, feedVars, analyzerVars, priceVars, subVars>>
NotPrices == <<coordVars, execVars, txVars, trackerVars, feedVars, analyzerVars, legVars, subVars>>
\* what the polling subscription and the handler it calls leave alone
NotStop == <<execVars, txVars, trackerVars, feedVars, analyzerVars, legVars, priceVars>>

vars == <<coordVars, execVars, libVars>>

(***************************************************************************)
(* PriceTracker                                                            *)
(***************************************************************************)
\* a PriceSnapshot | null
Null == [isNull |-> TRUE]

PriceSnapshot(sp, bp, t) ==
    [isNull |-> FALSE, solanaPrice |-> sp, basePrice |-> bp, timestamp |-> t,
     source |-> "event"]

\* bug: the snapshot is built from the event alone
UpdatedCurrent_Fresh(cur, chain, newPrice, t) ==
    PriceSnapshot(IF chain = "solana" THEN newPrice ELSE 0,
                  IF chain = "base" THEN newPrice ELSE 0, t)

\* PriceTracker.updatePrice: the current snapshot after the call
UpdatedCurrent(cur, chain, newPrice, t) ==
    IF cur.isNull
    THEN PriceSnapshot(IF chain = "solana" THEN newPrice ELSE 0,
                       IF chain = "base" THEN newPrice ELSE 0, t)
    ELSE PriceSnapshot(IF chain = "solana" THEN newPrice ELSE cur.solanaPrice,
                       IF chain = "base" THEN newPrice ELSE cur.basePrice, t)

\* bug: the first observation does not become the baseline
UpdatedBaseline_Keep(cur, base, chain, newPrice, t) == base

\* PriceTracker.updatePrice: the baseline snapshot after the call
UpdatedBaseline(cur, base, chain, newPrice, t) ==
    IF cur.isNull /\ base.isNull
    THEN UpdatedCurrent(cur, chain, newPrice, t)
    ELSE base

\* bug: resetBaseline leaves the baseline alone
ResetBaseline_Keep(cur, base) == base

\* PriceTracker.resetBaseline: the baseline after the call
ResetBaseline(cur, base) == IF cur.isNull THEN base ELSE cur

(***************************************************************************)
(* EventCoordinator                                                        *)
(***************************************************************************)
\* handleSolanaTradeEvent: SOL per token of a trade event
SolPerToken(solAmount, tokenAmount) == solAmount \div tokenAmount

\* handleBaseSwapEvent: USDC per token of a swap event, 0 when neither
\* direction matches
UsdcPerToken(amount0In, amount1In, amount0Out, amount1Out) ==
    IF amount0In > 0 /\ amount1Out > 0 THEN amount0In \div amount1Out
    ELSE IF amount1In > 0 /\ amount0Out > 0 THEN amount0Out \div amount1In
    ELSE 0

\* bug: the cooldown check is dropped
InCooldown_Off(t, last) == FALSE

\* triggerAnalysisIfReady: the cooldown check
InCooldown(t, last) == t - last < analysisCooldownMs

\* bug: the single-flight check is dropped
AlreadyRunning_Never(flag) == FALSE

\* triggerAnalysisIfReady: the single-flight check
AlreadyRunning(flag) == flag

\* triggerAnalysisIfReady: what becomes of an event
TriggerVerdict(t, last, flag) ==
    IF InCooldown(t, last) THEN "cooldown"
    ELSE IF AlreadyRunning(flag) THEN "running"
    ELSE "started"

\* bug: the callback always receives the snapshot of zeros
HandedSnapshot_Zeros(cur, t) == PriceSnapshot(0, 0, t)

\* the currentSnapshot handed to the callback:
\* this.priceTracker.getCurrentSnapshot() || { zeros }
HandedSnapshot(cur, t) == IF cur.isNull THEN PriceSnapshot(0, 0, t) ELSE cur

\* triggerAnalysisIfReady up to the await of the callback; price is the
\* price the handler derived from the event, kept in the history variable
TriggerAnalysisIfReady(chain, price) ==
    LET verdict == TriggerVerdict(now, lastAnalysisTime, isAnalysisRunning) IN
    /\ lastEv' = [seq |-> 1 - lastEv.seq, chain |-> chain, verdict |-> verdict,
                  price |-> price,
                  handed |-> IF verdict = "started"
                             THEN HandedSnapshot(currentSnapshot', now)
                             ELSE Null]
    /\ IF verdict = "started"
       THEN /\ inflightEvent < MaxInflight
            /\ isAnalysisRunning' = TRUE
            /\ lastAnalysisTime' = now
            /\ inflightEvent' = inflightEvent + 1
            /\ lastStart' = now
            /\ eventsDuringCycle' =
                 IF inflightEvent > 0
                 THEN IF eventsDuringCycle < MaxCounted
                      THEN eventsDuringCycle + 1 ELSE eventsDuringCycle
                 ELSE 0
       ELSE /\ UNCHANGED <<isAnalysisRunning, lastAnalysisTime, inflightEvent,
                           lastStart>>
            /\ eventsDuringCycle' =
                 IF inflightEvent > 0 /\ eventsDuringCycle < MaxCounted
                 THEN eventsDuringCycle + 1 ELSE eventsDuringCycle

HandleSolanaTradeEvent ==
    \E solAmount \in SolAmounts, tokenAmount \in TokenAmounts :
        /\ isStarted
        /\ LET p == SolPerToken(solAmount, tokenAmount) IN
           /\ currentSnapshot' = UpdatedCurrent(currentSnapshot, "solana", p, now)
           /\ baselineSnapshot' =
                UpdatedBaseline(currentSnapshot, baselineSnapshot, "solana", p, now)
        /\ TriggerAnalysisIfReady("solana", SolPerToken(solAmount, tokenAmount))
        /\ UNCHANGED <<now, isStarted, callbackKind, inflightHttp,
                       lastEnd, handlerEscaped>>
        /\ UNCHANGED <<execVars, libVars>>

HandleBaseSwapEvent ==
    \E amount0In \in UsdcAmounts, amount1In \in BaseTokenAmounts,
       amount0Out \in UsdcAmounts, amount1Out \in BaseTokenAmounts :
        /\ isStarted
        /\ LET p == UsdcPerToken(amount0In, amount1In, amount0Out, amount1Out) IN
           IF p > 0
           THEN /\ currentSnapshot' = UpdatedCurrent(currentSnapshot, "base", p, now)
                /\ baselineSnapshot' =
                     UpdatedBaseline(currentSnapshot, baselineSnapshot, "base", p, now)
           ELSE UNCHANGED <<currentSnapshot, baselineSnapshot>>
        /\ TriggerAnalysisIfReady("base", UsdcPerToken(amount0In, amount1In,
                                                     amount0Out, amount1Out))
        /\ UNCHANGED <<now, isStarted, callbackKind, inflightHttp,
                       lastEnd, handlerEscaped>>
        /\ UNCHANGED <<execVars, libVars>>

\* server.ts registers a callback that catches every error of the run; a
\* callback that lets the error through rejects the awaited promise
CallbackOutcome(kind, result) ==
    IF kind = "server" THEN "returned"
    ELSE IF result = "threw" THEN "threw" ELSE "returned"

\* bug: the baseline reset is forgotten
BaselineAfterCycle_NoReset(outcome, cur, base) == base

\* triggerAnalysisIfReady after the await: the baseline reset inside the try
BaselineAfterCycle(outcome, cur, base) ==
    IF outcome = "returned" THEN ResetBaseline(cur, base) ELSE base

\* bug: the flag is cleared at the end of the try block instead of in finally
FlagAfterCycle_NoFinally(outcome, flag) ==
    IF outcome = "threw" THEN flag ELSE FALSE

\* bug: the flag is never cleared
FlagAfterCycle_Keep(outcome, flag) == flag

\* triggerAnalysisIfReady: the finally block
FlagAfterCycle(outcome, flag) == FALSE

\* triggerAnalysisIfReady: the catch block logs the error and swallows it
ErrorEscapes(outcome) == FALSE

\* the awaited callback settles and triggerAnalysisIfReady runs to its end
CycleEnd ==
    \E result \in RunResults :
        LET outcome == CallbackOutcome(callbackKind, result) IN
        /\ inflightEvent > 0
        /\ inflightEvent' = inflightEvent - 1
        /\ baselineSnapshot' =
             BaselineAfterCycle(outcome, currentSnapshot, baselineSnapshot)
        /\ isAnalysisRunning' = FlagAfterCycle(outcome, isAnalysisRunning)
        /\ handlerEscaped' = (handlerEscaped \/ ErrorEscapes(outcome))
        /\ lastEnd' = [time |-> now, outcome |-> outcome]
        /\ UNCHANGED <<now, isStarted, callbackKind, lastAnalysisTime,
                       currentSnapshot, inflightHttp, lastEv,
                       lastStart, eventsDuringCycle>>
        /\ UNCHANGED <<execVars, libVars>>

(***************************************************************************)
(* server.ts                                                               *)
(***************************************************************************)
StartMonitoring ==
    /\ ~isStarted
    /\ isStarted' = TRUE
    /\ UNCHANGED <<now, callbackKind, isAnalysisRunning, lastAnalysisTime,
                   currentSnapshot, baselineSnapshot, inflightEvent, inflightHttp,
                   lastEv, lastStart, lastEnd, handlerEscaped,
                   eventsDuringCycle>>
    /\ UNCHANGED <<execVars, libVars>>

\* POST /trigger-analysis: whether the route starts a run
RouteStartsRun(started, running) == started

\* POST /trigger-analysis up to the await of runArbitrageAnalysis (a request
\* before monitoring started is answered 503 and changes nothing)
HttpTriggerAnalysis ==
    /\ RouteStartsRun(isStarted, isAnalysisRunning)
    /\ inflightHttp < MaxHttp
    /\ inflightHttp' = inflightHttp + 1
    /\ UNCHANGED <<now, isStarted, callbackKind, isAnalysisRunning,
                   lastAnalysisTime, currentSnapshot, baselineSnapshot,
                   inflightEvent, lastEv, lastStart, lastEnd, handlerEscaped,
                   eventsDuringCycle>>
    /\ UNCHANGED <<execVars, libVars>>

\* POST /trigger-analysis: the run settles and the response is sent
HttpRunEnd ==
    \E result \in RunResults :
        /\ inflightHttp > 0
        /\ inflightHttp' = inflightHttp - 1
        /\ UNCHANGED <<now, isStarted, callbackKind, isAnalysisRunning,
                       lastAnalysisTime, currentSnapshot, baselineSnapshot,
                       inflightEvent, lastEv, lastStart, lastEnd, handlerEscaped,
                       eventsDuringCycle>>
        /\ UNCHANGED <<execVars, libVars>>

\* time passes
Tick ==
    /\ now < MaxTime
    /\ now' = now + 1
    /\ UNCHANGED <<isStarted, callbackKind, isAnalysisRunning, lastAnalysisTime,
                   currentSnapshot, baselineSnapshot, inflightEvent, inflightHttp,
                   lastEv, lastStart, lastEnd, handlerEscaped,
                   eventsDuringCycle>>
    /\ UNCHANGED <<execVars, libVars>>

(***************************************************************************)
(* runArbitrageAnalysis: one run, from the inside                          *)
(***************************************************************************)
\* MIN_PROFIT_THRESHOLD, in percent (the default 0.02)
MinProfitThresholdPct == 2
\* calls that submit a trade in one run (only a retrying executor reaches it)
MaxSubmissions == 3

Directions == {"SOLANA_TO_BASE", "BASE_TO_SOLANA"}
\* what a leg's simulation on Solana does: no error, value.err set, or a
\* throw while the transaction is built or simulated
SolanaLegSims == {"ok", "err", "throws"}
\* simulateBuyTokensWithUsdc / simulateSellTokensForUsdc return or throw
BaseLegSims == {"ok", "throws"}
\* USD amounts of the simulated legs
BuyInputsUsd == {100}
SellOutputsUsd == {100, 102, 103}
GasCostsUsd == {0, 1}
\* what the chain reports while a submitted transaction is waited for: seen
\* at the awaited commitment, seen with an error, never seen, or seen without
\* error but below the awaited commitment until the poll budget is spent
ConfirmOutcomes == {"confirmed", "reverted", "not_found", "unconfirmed"}

\* executeArbitrage: the venue of each leg
LegChain(direction, leg) ==
    IF direction = "SOLANA_TO_BASE"
    THEN IF leg = "buy" THEN "solana" ELSE "base"
    ELSE IF leg = "buy" THEN "base" ELSE "solana"

\* tx.wait() resolves with the first confirmation or rejects;
\* sendAndConfirmTransactionWithPolling has a bounded poll count
WaitOutcomes(chain) ==
    IF chain = "solana" THEN ConfirmOutcomes
    ELSE ConfirmOutcomes \ {"unconfirmed"}

\* sendAndConfirmTransactionWithPolling returns the signature from a poll at
\* the awaited commitment, and after the loop whenever the last status has
\* a value and no error; tx.wait() returns the receipt
WaitReturns(chain, outcome) ==
    IF chain = "solana" THEN outcome \in {"confirmed", "unconfirmed"}
    ELSE outcome = "confirmed"

\* the state of a leg whose wait ended
LegAfterWait(chain, outcome) ==
    IF WaitReturns(chain, outcome) THEN outcome ELSE "failed"

\* the awaited call of a leg returned
LegReturned(leg) == leg \in {"confirmed", "unconfirmed"}

NoOpportunity == [found |-> FALSE, direction |-> "none"]
NoSimulation ==
    [kind |-> "none", success |-> FALSE, netProfitUsd |-> 0, totalCostUsd |-> 0,
     failureReason |-> "none"]
\* calls of notifyTradeExecution and of notifyTradeFailed in the run, the
\* reason given to the latter, and the post-trade balances of the summary
NoNotification ==
    [executed |-> 0, failed |-> 0, reason |-> "none", postBalances |-> "none"]

\* simulateArbitrage: a result with success = false
FailedSimulation(net, cost, reason) ==
    [kind |-> "result", success |-> FALSE, netProfitUsd |-> net,
     totalCostUsd |-> cost, failureReason |-> reason]

\* bug: only a loss is rejected
ProfitBelowThreshold_LossOnly(netProfitUsd, totalCost) == netProfitUsd < 0

\* simulateArbitrage: netProfitUsd < MIN_PROFIT_THRESHOLD * totalCost
ProfitBelowThreshold(netProfitUsd, totalCost) ==
    netProfitUsd * 100 < MinProfitThresholdPct * totalCost

\* simulateArbitrage: the net profit check on two simulated legs
ProfitCheck(buyInput, buyGas, sellOutput, sellGas) ==
    LET totalCost == buyInput + buyGas
        totalRevenue == sellOutput - sellGas
        netProfitUsd == totalRevenue - totalCost
    IN IF ProfitBelowThreshold(netProfitUsd, totalCost)
       THEN FailedSimulation(netProfitUsd, totalCost, "below threshold")
       ELSE [kind |-> "result", success |-> TRUE, netProfitUsd |-> netProfitUsd,
             totalCostUsd |-> totalCost, failureReason |-> "none"]

\* simulateArbitrage: what it returns
SimulateArbitrage(direction, cfg, solLeg, baseLeg, buyIn, buyGas, sellOut, sellGas) ==
    LET solOk == cfg.solanaKey /\ solLeg = "ok"
        baseOk == cfg.baseKey /\ baseLeg = "ok"
        solThrows == cfg.solanaKey /\ solLeg = "throws"
        baseThrows == cfg.baseKey /\ baseLeg = "throws"
        crash == FailedSimulation(0, 0, "Simulation Crash")
        legs == FailedSimulation(0, 0, "Simulation failed")
        check == ProfitCheck(buyIn, buyGas, sellOut, sellGas)
    IN IF direction = "SOLANA_TO_BASE"
       THEN IF solThrows THEN crash
            ELSE IF solOk /\ baseOk THEN check ELSE legs
       ELSE IF baseThrows THEN [NoSimulation EXCEPT !.kind = "null"]
            ELSE IF solThrows THEN crash
            ELSE IF solOk /\ baseOk THEN check ELSE legs

\* runArbitrageAnalysis: !simulation || !simulation.success
SimulationRejected(s) == s.kind = "null" \/ ~s.success

\* runArbitrageAnalysis: what follows the simulation
AfterSimulation(s, cfg) ==
    IF SimulationRejected(s) THEN "rejected"
    ELSE IF cfg.autoExecute
         THEN IF ~cfg.solanaKey \/ ~cfg.baseKey THEN "not_executed" ELSE "execute"
         ELSE "not_executed"

\* bug: a failed leg is submitted again
OnLegFailure_Retry(leg) == IF leg = "buy" THEN "buy_submit" ELSE "sell_submit"

\* executeArbitrage: a throw of any step of a leg reaches the catch, which
\* rethrows; runArbitrageAnalysis then reports the failure
OnLegFailure(leg) == "notify_failed"

\* executeArbitrage: the sell leg follows the awaited buy leg
AfterBuyResult(returned) ==
    IF returned THEN "sell_prepare" ELSE OnLegFailure("buy")

\* executeArbitrage returns once the sell leg is confirmed
AfterSellResult(returned) ==
    IF returned THEN "post_balances" ELSE OnLegFailure("sell")

\* executeArbitrage: Promise<void>, resolved or rejected
ExecOutcomeAt(next, old) ==
    IF next = "post_balances" THEN "completed"
    ELSE IF next = "notify_failed" THEN "threw"
    ELSE old

\* the configuration of a run and the Base wallet it trades from (whether
\* it holds the USDC a buy needs and the tokens a sell needs)
RunConfig(auto, sk, bk, usdc, token) ==
    [autoExecute |-> auto, solanaKey |-> sk, baseKey |-> bk,
     usdcEnough |-> usdc, tokenEnough |-> token]

RunStart ==
    \E auto \in BOOLEAN, sk \in BOOLEAN, bk \in BOOLEAN,
       usdc \in BOOLEAN, token \in BOOLEAN :
        /\ pc = "idle"
        /\ runCfg' = RunConfig(auto, sk, bk, usdc, token)
        /\ pc' = "fetch"
        /\ UNCHANGED <<opp, sim, execCalls, buy, sell, submissions, execOutcome,
                       notified, runResult>>
        /\ UNCHANGED <<market, execError>>
        /\ UNCHANGED <<coordVars, libVars>>

\* reserves as the venues report them
ReserveValues == {0 - 1, 0, 1}
\* getCoinData: nothing, or the four reserves of the bonding curve
CoinDataResults ==
    {[failed |-> TRUE, vSol |-> 0, vToken |-> 0, rSol |-> 0, rToken |-> 0]} \cup
    [failed : {FALSE}, vSol : ReserveValues, vToken : ReserveValues,
     rSol : {0, 1}, rToken : {0, 1}]
\* pairContract.getReserves(): a throw, or the two reserves of the pair
PairReservesResults ==
    {[failed |-> TRUE, usdc |-> 0, token |-> 0]} \cup
    [failed : {FALSE}, usdc : ReserveValues, token : ReserveValues]

NoMarket == [kind |-> "none"]
NullMarket == [kind |-> "null"]

\* bug: a reserve of zero is accepted
InvalidReserve_NegativeOnly(r) == r < 0

\* fetchMarketData: reserve <= 0n
InvalidReserve(r) == r <= 0

\* fetchMarketData: the Solana part throws
SolanaFetchThrows(coin) ==
    \/ coin.failed
    \/ InvalidReserve(coin.vSol) \/ InvalidReserve(coin.vToken)
    \/ InvalidReserve(coin.rSol) \/ InvalidReserve(coin.rToken)

\* fetchMarketData: the Base part throws
BaseFetchThrows(pair) ==
    pair.failed \/ InvalidReserve(pair.usdc) \/ InvalidReserve(pair.token)

\* fetchMarketData: MarketStats | null; every throw is caught and becomes
\* null
FetchMarketDataResult(coin, pair) ==
    IF SolanaFetchThrows(coin) \/ BaseFetchThrows(pair) THEN NullMarket
    ELSE [kind |-> "stats",
          solana |-> [virtualSolReserves |-> coin.vSol,
                      virtualTokenReserves |-> coin.vToken,
                      realSolReserves |-> coin.rSol,
                      realTokenReserves |-> coin.rToken],
          base |-> [usdcReserves |-> pair.usdc, tokenReserves |-> pair.token]]

\* runArbitrageAnalysis: fetchMarketData, the throw on null, and
\* fetchWalletStats (which returns null instead of throwing)
FetchMarketData ==
    \E coin \in CoinDataResults, pair \in PairReservesResults :
        LET stats == FetchMarketDataResult(coin, pair) IN
        /\ pc = "fetch"
        /\ market' = stats
        /\ IF stats.kind = "stats"
           THEN pc' = "analyze" /\ UNCHANGED runResult
           ELSE pc' = "done" /\ runResult' = "threw"
        /\ UNCHANGED <<runCfg, opp, sim, execCalls, buy, sell, submissions,
                       execOutcome, notified>>
        /\ UNCHANGED execError
        /\ UNCHANGED <<coordVars, libVars>>

AnalyzeOpportunity ==
    \E found \in BOOLEAN, d \in Directions :
        /\ pc = "analyze"
        /\ IF found
           THEN /\ opp' = [found |-> TRUE, direction |-> d]
                /\ pc' = "simulate"
                /\ UNCHANGED runResult
           ELSE /\ pc' = "done"
                /\ runResult' = "no_opportunity"
                /\ UNCHANGED opp
        /\ UNCHANGED <<runCfg, sim, execCalls, buy, sell, submissions,
                       execOutcome, notified>>
        /\ UNCHANGED <<market, execError>>
        /\ UNCHANGED <<coordVars, libVars>>

\* simulateArbitrage settles and the run goes on to the call of
\* executeArbitrage or returns
Simulate ==
    \E solLeg \in SolanaLegSims, baseLeg \in BaseLegSims,
       buyInput \in BuyInputsUsd, buyGas \in GasCostsUsd,
       sellOutput \in SellOutputsUsd, sellGas \in GasCostsUsd :
        LET s == SimulateArbitrage(opp.direction, runCfg, solLeg, baseLeg,
                                   buyInput, buyGas, sellOutput, sellGas)
            next == AfterSimulation(s, runCfg)
        IN /\ pc = "simulate"
           /\ sim' = s
           /\ IF next = "execute"
              THEN /\ pc' = "buy_prepare"
                   /\ execCalls' = execCalls + 1
                   /\ UNCHANGED runResult
              ELSE /\ pc' = "done"
                   /\ runResult' = next
                   /\ UNCHANGED execCalls
           /\ UNCHANGED <<runCfg, opp, buy, sell, submissions, execOutcome,
                          notified>>
           /\ UNCHANGED <<market, execError>>
           /\ UNCHANGED <<coordVars, libVars>>

\* executeArbitrage: how the steps before a leg's submission end.  A leg on
\* Base is simulated again and the wallet's balance of what it spends is
\* compared with the amount (USDC for a buy, tokens for a sell); a leg on
\* Solana only has its instruction and transaction built
PrepareOutcomes(direction, leg, cfg) ==
    IF LegChain(direction, leg) = "base"
    THEN IF (leg = "buy" /\ ~cfg.usdcEnough) \/ (leg = "sell" /\ ~cfg.tokenEnough)
         THEN {"insufficient_balance", "throws"}
         ELSE {"ok", "throws"}
    ELSE {"ok", "throws"}

\* the error executeArbitrage rethrows
ErrorOf(outcome, old) ==
    IF outcome = "ok" THEN old
    ELSE IF outcome = "insufficient_balance" THEN "insufficient_balance"
    ELSE "other"

\* executeArbitrage: what precedes the submission of the buy (the Solana
\* instruction and transaction are built; on Base the buy is simulated and
\* the USDC balance checked)
BuyPrepare ==
    \E o \in PrepareOutcomes(opp.direction, "buy", runCfg) :
        LET next == IF o = "ok" THEN "buy_submit" ELSE OnLegFailure("buy") IN
        /\ pc = "buy_prepare"
        /\ pc' = next
        /\ buy' = IF o = "ok" THEN buy ELSE "failed"
        /\ execError' = ErrorOf(o, execError)
        /\ execOutcome' = ExecOutcomeAt(next, execOutcome)
        /\ UNCHANGED <<runCfg, opp, sim, execCalls, sell, submissions, notified,
                       runResult>>
        /\ UNCHANGED market
        /\ UNCHANGED <<coordVars, libVars>>

\* connection.sendTransaction / router.swapTokensForExactTokens
BuySubmit ==
    \E ok \in BOOLEAN :
        LET next == IF ok THEN "buy_confirm" ELSE OnLegFailure("buy") IN
        /\ pc = "buy_submit"
        /\ Len(submissions) < MaxSubmissions
        /\ submissions' = Append(submissions, "buy")
        /\ pc' = next
        /\ buy' = IF ok THEN "pending" ELSE "failed"
        /\ execError' = ErrorOf(IF ok THEN "ok" ELSE "throws", execError)
        /\ execOutcome' = ExecOutcomeAt(next, execOutcome)
        /\ UNCHANGED <<runCfg, opp, sim, execCalls, sell, notified, runResult>>
        /\ UNCHANGED market
        /\ UNCHANGED <<coordVars, libVars>>

\* the status polls of sendAndConfirmTransactionWithPolling / tx.wait()
BuyConfirm ==
    \E o \in WaitOutcomes(LegChain(opp.direction, "buy")) :
        LET chain == LegChain(opp.direction, "buy")
            next == AfterBuyResult(WaitReturns(chain, o))
        IN
        /\ pc = "buy_confirm"
        /\ pc' = next
        /\ buy' = LegAfterWait(chain, o)
        /\ execError' =
             ErrorOf(IF WaitReturns(chain, o) THEN "ok" ELSE "throws", execError)
        /\ execOutcome' = ExecOutcomeAt(next, execOutcome)
        /\ UNCHANGED <<runCfg, opp, sim, execCalls, sell, submissions, notified,
                       runResult>>
        /\ UNCHANGED market
        /\ UNCHANGED <<coordVars, libVars>>

\* executeArbitrage: what precedes the submission of the sell (on Base the
\* sell is simulated again and the token balance and allowance checked; the
\* Solana instruction and transaction are built)
SellPrepare ==
    \E o \in PrepareOutcomes(opp.direction, "sell", runCfg) :
        LET next == IF o = "ok" THEN "sell_submit" ELSE OnLegFailure("sell") IN
        /\ pc = "sell_prepare"
        /\ pc' = next
        /\ sell' = IF o = "ok" THEN sell ELSE "failed"
        /\ execError' = ErrorOf(o, execError)
        /\ execOutcome' = ExecOutcomeAt(next, execOutcome)
        /\ UNCHANGED <<runCfg, opp, sim, execCalls, buy, submissions, notified,
                       runResult>>
        /\ UNCHANGED market
        /\ UNCHANGED <<coordVars, libVars>>

\* router.swapExactTokensForTokens / connection.sendTransaction
SellSubmit ==
    \E ok \in BOOLEAN :
        LET next == IF ok THEN "sell_confirm" ELSE OnLegFailure("sell") IN
        /\ pc = "sell_submit"
        /\ Len(submissions) < MaxSubmissions
        /\ submissions' = Append(submissions, "sell")
        /\ pc' = next
        /\ sell' = IF ok THEN "pending" ELSE "failed"
        /\ execError' = ErrorOf(IF ok THEN "ok" ELSE "throws", execError)
        /\ execOutcome' = ExecOutcomeAt(next, execOutcome)
        /\ UNCHANGED <<runCfg, opp, sim, execCalls, buy, notified, runResult>>
        /\ UNCHANGED market
        /\ UNCHANGED <<coordVars, libVars>>

SellConfirm ==
    \E o \in WaitOutcomes(LegChain(opp.direction, "sell")) :
        LET chain == LegChain(opp.direction, "sell")
            next == AfterSellResult(WaitReturns(chain, o))
        IN
        /\ pc = "sell_confirm"
        /\ pc' = next
        /\ sell' = LegAfterWait(chain, o)
        /\ execError' =
             ErrorOf(IF WaitReturns(chain, o) THEN "ok" ELSE "throws", execError)
        /\ execOutcome' = ExecOutcomeAt(next, execOutcome)
        /\ UNCHANGED <<runCfg, opp, sim, execCalls, buy, submissions, notified,
                       runResult>>
        /\ UNCHANGED market
        /\ UNCHANGED <<coordVars, libVars>>

\* runArbitrageAnalysis: the post-trade fetchWalletStats
\* (fetchWalletStats catches its errors and returns null; the summary then
\* has no post-trade balances)
PostTradeBalances ==
    \E ok \in BOOLEAN :
        /\ pc = "post_balances"
        /\ pc' = "notify_executed"
        /\ notified' =
             [notified EXCEPT !.postBalances = IF ok THEN "fetched" ELSE "null"]
        /\ UNCHANGED <<runCfg, opp, sim, execCalls, buy, sell, submissions,
                       execOutcome, runResult>>
        /\ UNCHANGED <<market, execError>>
    /\ UNCHANGED <<coordVars, libVars>>

\* runArbitrageAnalysis: notifyTradeExecution, awaited inside the try block;
\* a rejection of the sink goes to the catch
NotifyTradeExecution ==
    \E ok \in BOOLEAN :
        /\ pc = "notify_executed"
        /\ notified' = [notified EXCEPT !.executed = @ + 1]
        /\ IF ok
           THEN /\ pc' = "done"
                /\ runResult' = "executed"
           ELSE /\ pc' = "notify_failed"
                /\ UNCHANGED runResult
        /\ UNCHANGED <<runCfg, opp, sim, execCalls, buy, sell, submissions,
                       execOutcome>>
        /\ UNCHANGED <<market, execError>>
        /\ UNCHANGED <<coordVars, libVars>>

\* runArbitrageAnalysis: the catch block, notifyTradeFailed and the rethrow
NotifyTradeFailed ==
    /\ pc = "notify_failed"
    /\ notified' = [notified EXCEPT
                      !.failed = @ + 1,
                      !.reason = "Execution failed"]
    /\ pc' = "done"
    /\ runResult' = "threw"
    /\ UNCHANGED <<runCfg, opp, sim, execCalls, buy, sell, submissions,
                   execOutcome>>
    /\ UNCHANGED <<market, execError>>
    /\ UNCHANGED <<coordVars, libVars>>

InitRun ==
    /\ pc = "idle"
    /\ runCfg = RunConfig(FALSE, FALSE, FALSE, FALSE, FALSE)
    /\ opp = NoOpportunity
    /\ sim = NoSimulation
    /\ execCalls = 0
    /\ buy = "none"
    /\ sell = "none"
    /\ submissions = <<>>
    /\ execOutcome = "none"
    /\ notified = NoNotification
    /\ runResult = "none"
    /\ market = NoMarket
    /\ execError = "none"

\* the next run starts from scratch: nothing is kept between runs
RunRestart ==
    /\ pc = "done"
    /\ pc' = "idle"
    /\ runCfg' = RunConfig(FALSE, FALSE, FALSE, FALSE, FALSE)
    /\ opp' = NoOpportunity
    /\ sim' = NoSimulation
    /\ execCalls' = 0
    /\ buy' = "none"
    /\ sell' = "none"
    /\ submissions' = <<>>
    /\ execOutcome' = "none"
    /\ notified' = NoNotification
    /\ runResult' = "none"
    /\ market' = NoMarket
    /\ execError' = "none"
    /\ UNCHANGED <<coordVars, libVars>>

(***************************************************************************)
(* sendAndConfirmTransactionWithPolling: one call, from the inside         *)
(***************************************************************************)
\* options.maxRetries || 30, scaled down
DefaultMaxRetries == 3
\* the largest options.maxRetries a caller passes
MaxRetriesOption == 2

Commitments == {"processed", "confirmed", "finalized"}
\* getSignatureStatus: value null, value.err set, a confirmationStatus, or
\* the request itself fails
SignatureStatuses ==
    {"null", "err", "processed", "confirmed", "finalized", "rpc_error"}

\* options.maxRetries || 30 (0 stands for an option left out)
EffectiveMaxRetries(option) == IF option = 0 THEN DefaultMaxRetries ELSE option

\* the commitment check of the polling loop
CommitmentReached(status, wanted) ==
    \/ status = wanted
    \/ wanted = "confirmed" /\ status = "finalized"
    \/ wanted = "processed" /\ status \in {"confirmed", "finalized"}

\* bug: one poll too many
LoopContinues_Inclusive(k, budget) == k <= budget

\* for (let i = 0; i < maxRetries; i++)
LoopContinues(k, budget) == k < budget

\* one iteration of the polling loop: where the call goes
AfterLoopPoll(status, wanted) ==
    IF status \in {"err", "rpc_error"} THEN "threw"
    ELSE IF status # "null" /\ CommitmentReached(status, wanted) THEN "returned"
    ELSE "polling"

\* the check after the loop: where the call goes
AfterFinalPoll(status) ==
    IF status \in {"err", "rpc_error"} THEN "threw"
    ELSE IF status = "null" THEN "threw"
    ELSE "returned"

InitTx ==
    /\ txPc = "idle"
    /\ commitment = "confirmed"
    /\ maxRetries = DefaultMaxRetries
    /\ iPoll = 0
    /\ polled = <<>>

\* the call with its options, up to connection.sendTransaction
SendTransaction ==
    \E wanted \in Commitments, option \in 0..MaxRetriesOption, ok \in BOOLEAN :
        /\ txPc = "idle"
        /\ commitment' = wanted
        /\ maxRetries' = EffectiveMaxRetries(option)
        /\ iPoll' = 0
        /\ polled' = <<>>
        /\ txPc' = IF ok THEN "polling" ELSE "threw"
        /\ UNCHANGED NotTx

\* one iteration of the loop: getSignatureStatus and the checks on it
PollInLoop ==
    \E status \in SignatureStatuses :
        /\ txPc = "polling"
        /\ LoopContinues(iPoll, maxRetries)
        /\ polled' = Append(polled, status)
        /\ txPc' = AfterLoopPoll(status, commitment)
        /\ iPoll' =
             IF AfterLoopPoll(status, commitment) = "polling" THEN iPoll + 1
             ELSE iPoll
        /\ UNCHANGED <<commitment, maxRetries>>
        /\ UNCHANGED NotTx

\* the loop is left without a verdict: one more getSignatureStatus
PollAfterLoop ==
    \E status \in SignatureStatuses :
        /\ txPc = "polling"
        /\ ~LoopContinues(iPoll, maxRetries)
        /\ polled' = Append(polled, status)
        /\ txPc' = AfterFinalPoll(status)
        /\ UNCHANGED <<commitment, maxRetries, iPoll>>
        /\ UNCHANGED NotTx

\* the next call
TxRestart ==
    /\ txPc \in {"returned", "threw"}
    /\ txPc' = "idle"
    /\ commitment' = "confirmed"
    /\ maxRetries' = DefaultMaxRetries
    /\ iPoll' = 0
    /\ polled' = <<>>
    /\ UNCHANGED NotTx

NextConfirm ==
    \/ SendTransaction
    \/ PollInLoop
    \/ PollAfterLoop
    \/ TxRestart

(***************************************************************************)
(* PriceTracker: calls of its public methods                               *)
(***************************************************************************)
\* PriceTracker.threshold, in percent (the default 2.0)
threshold == 2
\* callbacks registered with onThresholdExceeded
MaxCallbacks == 2
\* prices passed to updatePrice
TrackedPrices == {0, 100, 101, 102}

Abs(x) == IF x < 0 THEN 0 - x ELSE x

\* bug: a price that appears where the old price was 0 counts as a change
ChangeReaches_FromZero(oldPrice, newPrice, thr) ==
    IF oldPrice = 0 THEN newPrice > 0
    ELSE Abs(newPrice - oldPrice) * 100 >= thr * oldPrice

\* bug: a change equal to the threshold does not count
ChangeReaches_Strict(oldPrice, newPrice, thr) ==
    IF oldPrice = 0 THEN 0 > thr
    ELSE Abs(newPrice - oldPrice) * 100 > thr * oldPrice

\* Math.abs(calculatePercentChange(oldPrice, newPrice)) >= threshold, where
\* calculatePercentChange is 0 for an old price of 0 and
\* ((newPrice - oldPrice) / oldPrice) * 100 otherwise (prices are not
\* negative)
ChangeReaches(oldPrice, newPrice, thr) ==
    IF oldPrice = 0 THEN 0 >= thr
    ELSE Abs(newPrice - oldPrice) * 100 >= thr * oldPrice

\* PriceTracker.calculatePercentChange, as the fraction num / den
CalculatePercentChange(oldPrice, newPrice) ==
    IF oldPrice = 0 THEN [num |-> 0, den |-> 1]
    ELSE [num |-> (newPrice - oldPrice) * 100, den |-> oldPrice]

\* PriceTracker.getCurrentChanges
GetCurrentChanges(cur, base) ==
    IF base.isNull \/ cur.isNull THEN [isNull |-> TRUE]
    ELSE [isNull |-> FALSE,
          solana |-> CalculatePercentChange(base.solanaPrice, cur.solanaPrice),
          base |-> CalculatePercentChange(base.basePrice, cur.basePrice)]

\* PriceTracker.hasExceededThreshold
HasExceededThreshold(cur, base) ==
    IF base.isNull \/ cur.isNull THEN FALSE
    ELSE \/ ChangeReaches(base.solanaPrice, cur.solanaPrice, threshold)
         \/ ChangeReaches(base.basePrice, cur.basePrice, threshold)

\* PriceTracker.updatePrice: its return value
UpdatePriceReturns(cur, base, chain, newPrice, t) ==
    IF cur.isNull THEN FALSE
    ELSE /\ ~base.isNull
         /\ HasExceededThreshold(UpdatedCurrent(cur, chain, newPrice, t), base)

\* this.callbacks.forEach(cb => cb(event)): invocations of each callback
Invocations(n, exceeded) == [k \in 1..n |-> IF exceeded THEN 1 ELSE 0]

TrackerCall(op, chain, price, ret, invoked) ==
    [seq |-> 1 - trk.seq, op |-> op, chain |-> chain, price |-> price,
     ret |-> ret, invoked |-> invoked,
     preCurrent |-> currentSnapshot, preBaseline |-> baselineSnapshot]

InitTracker ==
    /\ callbacks = 0
    /\ trk = [seq |-> 0, op |-> "none", chain |-> "none", price |-> 0,
              ret |-> FALSE, invoked |-> <<>>,
              preCurrent |-> Null, preBaseline |-> Null]

\* PriceTracker.onThresholdExceeded
OnThresholdExceeded ==
    /\ callbacks < MaxCallbacks
    /\ callbacks' = callbacks + 1
    /\ trk' = TrackerCall("onThresholdExceeded", "none", 0, FALSE, <<>>)
    /\ UNCHANGED <<currentSnapshot, baselineSnapshot>>
    /\ UNCHANGED NotTracker

\* PriceTracker.updatePrice
UpdatePrice ==
    \E chain \in Chains, newPrice \in TrackedPrices :
        LET ret == UpdatePriceReturns(currentSnapshot, baselineSnapshot, chain,
                                      newPrice, now)
        IN /\ currentSnapshot' = UpdatedCurrent(currentSnapshot, chain, newPrice, now)
           /\ baselineSnapshot' =
                UpdatedBaseline(currentSnapshot, baselineSnapshot, chain, newPrice, now)
           /\ trk' = TrackerCall("updatePrice", chain, newPrice, ret,
                                 Invocations(callbacks, ret))
           /\ UNCHANGED callbacks
           /\ UNCHANGED NotTracker

\* PriceTracker.resetBaseline
ResetBaselineCall ==
    /\ baselineSnapshot' = ResetBaseline(currentSnapshot, baselineSnapshot)
    /\ trk' = TrackerCall("resetBaseline", "none", 0, FALSE, <<>>)
    /\ UNCHANGED <<currentSnapshot, callbacks>>
    /\ UNCHANGED NotTracker

\* PriceTracker.reset
ResetTracker ==
    /\ currentSnapshot' = Null
    /\ baselineSnapshot' = Null
    /\ trk' = TrackerCall("reset", "none", 0, FALSE, <<>>)
    /\ UNCHANGED callbacks
    /\ UNCHANGED NotTracker

NextTracker ==
    \/ OnThresholdExceeded
    \/ UpdatePrice
    \/ ResetBaselineCall
    \/ ResetTracker

(***************************************************************************)
(* The polling subscriptions: pollForTradeEvents and pollForSwapEvents     *)
(***************************************************************************)
\* getSignaturesForAddress limit (20), scaled down
SigLimit == 2
\* processedSignatures is trimmed above this size (1000) ...
SigCap == 6
\* ... to its last entries (500)
SigKeep == 3
\* signatures the address gets in a behaviour
MaxSignatures == 8
\* blocks of a queryFilter range (currentBlock - 9 .. currentBlock)
BlockWindow == 2
\* processedTxHashes is trimmed above this size (5000) ...
TxCap == 4
\* ... to its last entries (2500)
TxKeep == 2
\* swap transactions of the pair in one block
MaxSwapsPerBlock == 2
\* blocks mined in a behaviour
MaxBlocks == 3

RECURSIVE SumOf(_, _)
\* the number of swap transactions in the first n blocks
SumOf(blocks, n) == IF n = 0 THEN 0 ELSE SumOf(blocks, n - 1) + blocks[n]

InSeq(x, seq) == \E k \in 1..Len(seq) : seq[k] = x

\* Set.add on a set kept in insertion order
SetAdd(seq, x) == IF InSeq(x, seq) THEN seq ELSE Append(seq, x)

\* Array.from(set).slice(-keep) once the size is past the cap
TrimProcessed(seq, cap, keep) ==
    IF Len(seq) > cap THEN SubSeq(seq, Len(seq) - keep + 1, Len(seq)) ELSE seq

\* getSignaturesForAddress: the latest signatures, newest first
LatestSignatures(count) ==
    [k \in 1..(IF count < SigLimit THEN count ELSE SigLimit) |-> count + 1 - k]

\* queryFilter(filter, fromBlock, toBlock): the transactions of the range,
\* oldest first
SwapsInRange(blocks, startBlock) ==
    LET currentBlock == Len(blocks)
        oldest == currentBlock - (BlockWindow - 1)
        fromBlock == IF startBlock > oldest THEN startBlock ELSE oldest
        first == SumOf(blocks, IF fromBlock < 1 THEN 0 ELSE fromBlock - 1) + 1
        last == SumOf(blocks, currentBlock)
    IN [k \in 1..(last - first + 1) |-> first + k - 1]

RECURSIVE ProcessAll(_, _, _)
\* the loop over the fetched ids: an id already in the set is skipped, any
\* other id is handed to the callback and added to the set
ProcessAll(ids, k, state) ==
    IF k > Len(ids) THEN state
    ELSE LET id == ids[k] IN
         IF InSeq(id, state.processed) THEN ProcessAll(ids, k + 1, state)
         ELSE ProcessAll(ids, k + 1,
                         [processed |-> Append(state.processed, id),
                          calls |-> [state.calls EXCEPT
                                       ![id] = IF @ < 2 THEN @ + 1 ELSE @]])

\* events.filter(e => !processedTxHashes.has(e.transactionHash))
NewEvents(ids, processed) == SelectSeq(ids, LAMBDA id : ~InSeq(id, processed))

RECURSIVE DeliverAll(_, _, _)
\* the loop over the new events: callback, then Set.add
DeliverAll(ids, k, state) ==
    IF k > Len(ids) THEN state
    ELSE DeliverAll(ids, k + 1,
                    [processed |-> SetAdd(state.processed, ids[k]),
                     calls |-> [state.calls EXCEPT
                                  ![ids[k]] = IF @ < 2 THEN @ + 1 ELSE @]])

InitFeed ==
    /\ sigCount = 0
    /\ processedSignatures = <<>>
    /\ swapBlocks = <<>>
    /\ processedTxHashes = <<>>
    /\ delivered = [solana |-> [id \in 1..MaxSignatures |-> 0],
                    base |-> [id \in 1..(MaxBlocks * MaxSwapsPerBlock) |-> 0]]

\* a trade of the token is confirmed on Solana
NewSignature ==
    /\ sigCount < MaxSignatures
    /\ sigCount' = sigCount + 1
    /\ UNCHANGED <<processedSignatures, swapBlocks, processedTxHashes, delivered>>
    /\ UNCHANGED NotFeed

\* one pollForTradeEvents call (every transaction carries a trade event of
\* the token; the other kinds are added to the set without a callback)
PollForTradeEvents ==
    LET after == ProcessAll(LatestSignatures(sigCount), 1,
                            [processed |-> processedSignatures,
                             calls |-> delivered.solana])
    IN /\ processedSignatures' = TrimProcessed(after.processed, SigCap, SigKeep)
       /\ delivered' = [delivered EXCEPT !.solana = after.calls]
       /\ UNCHANGED <<sigCount, swapBlocks, processedTxHashes>>
       /\ UNCHANGED NotFeed

\* a Base block is mined
NewBlock ==
    \E swaps \in 0..MaxSwapsPerBlock :
        /\ Len(swapBlocks) < MaxBlocks
        /\ swapBlocks' = Append(swapBlocks, swaps)
        /\ UNCHANGED <<sigCount, processedSignatures, processedTxHashes, delivered>>
        /\ UNCHANGED NotFeed

\* one pollForSwapEvents call (the subscription started at block 0)
PollForSwapEvents ==
    LET events == SwapsInRange(swapBlocks, 0)
        after == DeliverAll(NewEvents(events, processedTxHashes), 1,
                            [processed |-> processedTxHashes,
                             calls |-> delivered.base])
    IN /\ processedTxHashes' = TrimProcessed(after.processed, TxCap, TxKeep)
       /\ delivered' = [delivered EXCEPT !.base = after.calls]
       /\ UNCHANGED <<sigCount, processedSignatures, swapBlocks>>
       /\ UNCHANGED NotFeed

NextFeed ==
    \/ NewSignature
    \/ PollForTradeEvents
    \/ NewBlock
    \/ PollForSwapEvents

(***************************************************************************)
(* BigInt arithmetic.  The reserves of the program are bigint values far   *)
(* beyond the integers of the model checker, so a bigint that is not       *)
(* negative is a sequence of digits, least significant first, without      *)
(* leading zeros (0n is the empty sequence).  Carries are resolved by      *)
(* looking back over the lower digits rather than by recursion.            *)
(***************************************************************************)
BigBase == 10000

\* the bigint of a natural number below BigBase^3
Big(n) ==
    IF n = 0 THEN <<>>
    ELSE IF n < BigBase THEN <<n>>
    ELSE IF n < BigBase * BigBase THEN <<n % BigBase, n \div BigBase>>
    ELSE <<n % BigBase, (n \div BigBase) % BigBase, n \div (BigBase * BigBase)>>

Largest(S) == CHOOSE k \in S : \A j \in S : j <= k

\* a without its leading zeros
Trim(a) ==
    LET nonZero == {k \in 1..Len(a) : a[k] # 0}
    IN IF nonZero = {} THEN <<>> ELSE SubSeq(a, 1, Largest(nonZero))

Digit(a, k) == IF k >= 1 /\ k <= Len(a) THEN a[k] ELSE 0

BigCmp(a, b) ==
    IF Len(a) < Len(b) THEN 0 - 1
    ELSE IF Len(a) > Len(b) THEN 1
    ELSE LET differ == {k \in 1..Len(a) : a[k] # b[k]}
         IN IF differ = {} THEN 0
            ELSE IF a[Largest(differ)] < b[Largest(differ)] THEN 0 - 1 ELSE 1

\* a < b
BigLess(a, b) == BigCmp(a, b) < 0

\* a <= b
BigLeq(a, b) == BigCmp(a, b) <= 0

BigIsZero(a) == a = <<>>

\* a carry of 1 reaches the k-th of the columns x (each below 2 * BigBase - 1)
CarryInto(x, k) ==
    \E j \in 1..(k - 1) :
        /\ x[j] >= BigBase
        /\ \A i \in (j + 1)..(k - 1) : x[i] = BigBase - 1

\* the bigint of the columns x, each below 2 * BigBase - 1
Resolve(x) ==
    Trim([k \in 1..(Len(x) + 1) |->
             (Digit(x, k) + (IF CarryInto(x, k) THEN 1 ELSE 0)) % BigBase])

\* a + b
BigAdd(a, b) ==
    LET n == IF Len(a) < Len(b) THEN Len(b) ELSE Len(a)
        columns == [k \in 1..n |-> Digit(a, k) + Digit(b, k)]
    IN Resolve(columns)

\* a borrow of 1 reaches the k-th of the differences x
BorrowInto(x, k) ==
    \E j \in 1..(k - 1) :
        /\ x[j] < 0
        /\ \A i \in (j + 1)..(k - 1) : x[i] = 0

\* a - b, for a >= b
BigSub(a, b) ==
    LET differences == [k \in 1..Len(a) |-> a[k] - Digit(b, k)]
    IN Trim([k \in 1..Len(a) |->
                (differences[k] - (IF BorrowInto(differences, k) THEN 1 ELSE 0)
                 + BigBase) % BigBase])

\* |a - b|
BigAbsDiff(a, b) == IF BigLess(a, b) THEN BigSub(b, a) ELSE BigSub(a, b)

RECURSIVE ColumnSum(_, _, _, _, _)
\* the sum of a[i] * b[k + 1 - i] for i in lo..hi
ColumnSum(a, b, k, lo, hi) ==
    IF lo > hi THEN 0
    ELSE IF lo = hi THEN a[lo] * b[k + 1 - lo]
    ELSE LET mid == (lo + hi) \div 2
         IN ColumnSum(a, b, k, lo, mid) + ColumnSum(a, b, k, mid + 1, hi)

\* every column gives what is above BigBase to the next one
CarryOnce(x) ==
    [k \in 1..(Len(x) + 1) |->
        (Digit(x, k) % BigBase) + (Digit(x, k - 1) \div BigBase)]

\* a * b, for operands of at most 21 digits
BigMul(a, b) ==
    IF a = <<>> \/ b = <<>> THEN <<>>
    ELSE LET columns ==
                 [k \in 1..(Len(a) + Len(b) - 1) |->
                     ColumnSum(a, b, k,
                               IF k + 1 - Len(b) > 1 THEN k + 1 - Len(b) ELSE 1,
                               IF k < Len(a) THEN k ELSE Len(a))]
         IN Resolve(CarryOnce(CarryOnce(columns)))

\* a * d for a number d below 2^16
BigMulSmall(a, d) ==
    IF a = <<>> \/ d = 0 THEN <<>>
    ELSE Resolve(CarryOnce(CarryOnce([k \in 1..Len(a) |-> a[k] * d])))

\* the largest j in 0..9 with b * (base + j * step) <= r
LargestMultiple(r, b, base, step) ==
    Largest({j \in 0..9 : BigLeq(BigMulSmall(b, base + j * step), r)})

\* the number of a bigint of at most two digits
Small(a) == Digit(a, 1) + Digit(a, 2) * BigBase

\* base and the next decimal of the quotient digit
NextDecimal(r, b, base, step) == base + step * LargestMultiple(r, b, base, step)

\* the largest d below BigBase with b * d <= r, for r < b * BigBase: by
\* the division of the model checker when r has two digits, one decimal
\* at a time otherwise
QuotientDigit(r, b) ==
    IF BigLess(r, b) THEN 0
    ELSE IF Len(r) <= 2 THEN Small(r) \div Small(b)
    ELSE NextDecimal(r, b,
             NextDecimal(r, b,
                 NextDecimal(r, b, NextDecimal(r, b, 0, 1000), 100), 10), 1)

RECURSIVE DivFrom(_, _, _, _)
\* the digit d of the quotient and the digits below it, cur being the
\* remainder so far with the k-th digit of a
DivDigit(a, b, k, cur, d) ==
    IF d = 0 THEN Append(DivFrom(a, b, k - 1, cur), 0)
    ELSE Append(DivFrom(a, b, k - 1, BigSub(cur, BigMulSmall(b, d))), d)

DivCurrent(a, b, k, cur) == DivDigit(a, b, k, cur, QuotientDigit(cur, b))

\* long division of the digits of a from the k-th down, r being the
\* remainder of the digits above
DivFrom(a, b, k, r) ==
    IF k = 0 THEN <<>> ELSE DivCurrent(a, b, k, Trim(<<a[k]>> \o r))

\* a / b of two bigints (rounds down), for b > 0: the leading
\* Len(b) - 1 digits of a are below b and give no digit of the quotient
BigDiv(a, b) ==
    IF Len(a) < Len(b) THEN <<>>
    ELSE Trim(DivFrom(a, b, Len(a) - Len(b) + 1,
                      SubSeq(a, Len(a) - Len(b) + 2, Len(a))))

\* bug: a / b rounded down
BigCeilDiv_Floor(a, b) == BigDiv(a, b)

\* (a + b - 1n) / b: a / b rounded up
BigCeilDiv(a, b) == BigDiv(BigSub(BigAdd(a, b), Big(1)), b)

\* 10n ** BigInt(n)
BigPow10(n) ==
    [k \in 1..(n \div 4 + 1) |->
        IF k <= n \div 4 THEN 0
        ELSE IF n % 4 = 0 THEN 1 ELSE IF n % 4 = 1 THEN 10
        ELSE IF n % 4 = 2 THEN 100 ELSE 1000]

BigMin(a, b) == IF BigLess(a, b) THEN a ELSE b

(***************************************************************************)
(* Prices.  A price of the program is a double computed from bigints; the  *)
(* model keeps it as the exact fraction num / den (den > 0).               *)
(***************************************************************************)
Rat(num, den) == [num |-> num, den |-> den]

\* x < y
RatLess(x, y) == BigLess(BigMul(x.num, y.den), BigMul(y.num, x.den))

RatEq(x, y) == BigMul(x.num, y.den) = BigMul(y.num, x.den)

RatIsZero(x) == BigIsZero(x.num)

\* Math.abs(x - y)
RatAbsDiff(x, y) ==
    Rat(BigAbsDiff(BigMul(x.num, y.den), BigMul(y.num, x.den)),
        BigMul(x.den, y.den))

\* x + y
RatAdd(x, y) ==
    Rat(BigAdd(BigMul(x.num, y.den), BigMul(y.num, x.den)), BigMul(x.den, y.den))

\* Infinity, the first bestPriceDiff
Infinity == [inf |-> TRUE]

Finite(x) == [inf |-> FALSE, num |-> x.num, den |-> x.den]

(***************************************************************************)
(* Opportunity analyzer                                                    *)
(***************************************************************************)
PUMPFUN_FEE_BPS == 100
UNISWAP_FEE_BPS == 30
BPS_DENOMINATOR == 10000
\* 1e9: lamports per SOL
LAMPORTS_PER_SOL == 1000000000
\* the budget of the search loop
iterations == 200
\* tolerance = 0.001 (percent)
tolerance == [num |-> 1, den |-> 1000]
\* tokenDecimals of both venues (fetchMarketData gives both venues the
\* decimals of the Base token) and usdcDecimals
tokenDecimals == 6
usdcDecimals == 6

\* the snapshot of fetchMarketData, with the formula prices: the Solana
\* price in USD is (vSol / 1e9) / (vToken / 10^6) * solPriceUsd, the Base
\* price (usdc / token) * 10^(tokenDecimals - usdcDecimals)
MarketStats(vSol, vToken, usdc, token, solPriceUsd) ==
    [virtualSolReserves |-> vSol, virtualTokenReserves |-> vToken,
     usdcReserves |-> usdc, tokenReserves |-> token,
     solanaPriceUsd |-> Rat(BigMul(BigMul(vSol, Big(solPriceUsd)), BigPow10(6)),
                            BigMul(vToken, Big(LAMPORTS_PER_SOL))),
     basePriceUsd |-> Rat(BigMul(usdc, BigPow10(tokenDecimals)),
                          BigMul(token, BigPow10(usdcDecimals)))]

\* the snapshot with the real reserves of the bonding curve, which
\* fetchMarketData reads from the API next to the virtual ones
WithRealReserves(ms, realSol, realToken) ==
    [virtualSolReserves |-> ms.virtualSolReserves,
     virtualTokenReserves |-> ms.virtualTokenReserves,
     realSolReserves |-> realSol, realTokenReserves |-> realToken,
     usdcReserves |-> ms.usdcReserves, tokenReserves |-> ms.tokenReserves,
     solanaPriceUsd |-> ms.solanaPriceUsd, basePriceUsd |-> ms.basePriceUsd]

\* the real reserves of runVerification: realSolReserves: vSol,
\* realTokenReserves: vToken / 2n
HalfReal(ms) ==
    WithRealReserves(ms, ms.virtualSolReserves,
                     BigDiv(ms.virtualTokenReserves, Big(2)))

\* getPumpFunEffectivePrice for amountTokens > 0: the SOL amount of the
\* trade (the price is this amount / amountTokens), its fee and the
\* reserves after it
GetPumpFunEffectivePrice(virtualSol, virtualTokens, amountTokens, isBuy) ==
    LET k == BigMul(virtualSol, virtualTokens) IN
    IF isBuy
    THEN IF BigLeq(virtualTokens, amountTokens)
         THEN [infinite |-> TRUE]
         ELSE LET newVToken == BigSub(virtualTokens, amountTokens)
                  newVSol == BigCeilDiv(k, newVToken)
                  solNeeded == BigSub(newVSol, virtualSol)
                  fee == BigDiv(BigMul(solNeeded, Big(PUMPFUN_FEE_BPS)),
                                Big(BPS_DENOMINATOR))
              IN [infinite |-> FALSE, amount |-> BigAdd(solNeeded, fee),
                  fee |-> fee, newQuote |-> newVSol, newToken |-> newVToken]
    ELSE LET newVToken == BigAdd(virtualTokens, amountTokens)
             newVSol == BigCeilDiv(k, newVToken)
             solOutputRaw == BigSub(virtualSol, newVSol)
             fee == BigDiv(BigMul(solOutputRaw, Big(PUMPFUN_FEE_BPS)),
                           Big(BPS_DENOMINATOR))
         IN [infinite |-> FALSE, amount |-> BigSub(solOutputRaw, fee),
             fee |-> fee, newQuote |-> newVSol, newToken |-> newVToken]

\* the USDC a sale of amountTokens pays with the fee rate feeBps
UniswapAmountOut(usdcReserves, tokenReserves, amountTokens, feeBps) ==
    LET amountInWithFee == BigMul(amountTokens, Big(BPS_DENOMINATOR - feeBps))
        numerator == BigMul(amountInWithFee, usdcReserves)
        denominator == BigAdd(BigMul(tokenReserves, Big(BPS_DENOMINATOR)),
                              amountInWithFee)
    IN BigDiv(numerator, denominator)

\* getUniswapV2EffectivePrice for amountTokens > 0: the USDC amount of the
\* trade, the part of it that is the 0.3% fee and the reserves after it
GetUniswapV2EffectivePrice(usdcReserves, tokenReserves, amountTokens, isBuy) ==
    LET k == BigMul(usdcReserves, tokenReserves) IN
    IF isBuy
    THEN IF BigLeq(tokenReserves, amountTokens)
         THEN [infinite |-> TRUE]
         ELSE LET newTokenReserves == BigSub(tokenReserves, amountTokens)
                  newUsdcReserves == BigCeilDiv(k, newTokenReserves)
                  usdcNeededNoFee == BigSub(newUsdcReserves, usdcReserves)
                  usdcAmount ==
                      BigDiv(BigMul(usdcNeededNoFee, Big(BPS_DENOMINATOR)),
                             Big(BPS_DENOMINATOR - UNISWAP_FEE_BPS))
              IN [infinite |-> FALSE, amount |-> usdcAmount,
                  fee |-> BigSub(usdcAmount, usdcNeededNoFee),
                  newQuote |-> newUsdcReserves, newToken |-> newTokenReserves]
    ELSE LET usdcAmount == UniswapAmountOut(usdcReserves, tokenReserves,
                                            amountTokens, UNISWAP_FEE_BPS)
             noFee == UniswapAmountOut(usdcReserves, tokenReserves,
                                       amountTokens, 0)
         IN [infinite |-> FALSE, amount |-> usdcAmount,
             fee |-> BigSub(noFee, usdcAmount)]

\* bug: the division comes first
TradeSizeBase_DivideFirst(tradeSize) ==
    BigMul(BigDiv(tradeSize, BigPow10(tokenDecimals)), BigPow10(tokenDecimals))

\* tradeSize * 10^baseDecimals / 10^solDecimals
TradeSizeBase(tradeSize) ==
    BigDiv(BigMul(tradeSize, BigPow10(tokenDecimals)), BigPow10(tokenDecimals))

\* the USD prices calculatePostArbitrageState derives from the new reserves
PostPrices(newSolVSol, newSolVToken, newBaseUsdc, newBaseToken, solPriceUsd) ==
    [finite |-> TRUE,
     newSolVSol |-> newSolVSol, newSolVToken |-> newSolVToken,
     newBaseUsdc |-> newBaseUsdc, newBaseToken |-> newBaseToken,
     solanaPriceUsd |->
        Rat(BigMul(BigMul(newSolVSol, Big(solPriceUsd)), BigPow10(tokenDecimals)),
            BigMul(newSolVToken, Big(LAMPORTS_PER_SOL))),
     basePriceUsd |->
        Rat(BigMul(newBaseUsdc, BigPow10(tokenDecimals)),
            BigMul(newBaseToken, BigPow10(usdcDecimals)))]

\* calculatePostArbitrageState
CalculatePostArbitrageState(ms, tradeSize, direction, solPriceUsd) ==
    LET k_sol == BigMul(ms.virtualSolReserves, ms.virtualTokenReserves)
        k_base == BigMul(ms.usdcReserves, ms.tokenReserves)
        tradeSizeBase == TradeSizeBase(tradeSize)
    IN IF direction = "SOLANA_TO_BASE"
       THEN IF BigLeq(ms.virtualTokenReserves, tradeSize)
            THEN [finite |-> FALSE]
            ELSE LET newSolVToken == BigSub(ms.virtualTokenReserves, tradeSize)
                     newBaseToken == BigAdd(ms.tokenReserves, tradeSizeBase)
                 IN PostPrices(BigCeilDiv(k_sol, newSolVToken), newSolVToken,
                               BigDiv(k_base, newBaseToken), newBaseToken,
                               solPriceUsd)
       ELSE IF BigLeq(ms.tokenReserves, tradeSizeBase)
            THEN [finite |-> FALSE]
            ELSE LET newBaseToken == BigSub(ms.tokenReserves, tradeSizeBase)
                     newSolVToken == BigAdd(ms.virtualTokenReserves, tradeSize)
                 IN PostPrices(BigDiv(k_sol, newSolVToken), newSolVToken,
                               BigCeilDiv(k_base, newBaseToken), newBaseToken,
                               solPriceUsd)

\* bug: the whole reserve
ReserveLimit_Whole(reserve) == reserve

\* 80% of a reserve: (reserve * 80n) / 100n
ReserveLimit(reserve) == BigDiv(BigMul(reserve, Big(80)), Big(100))

\* the Base limit in Solana decimals
MaxTokensBaseInSolDecimals(ms) ==
    BigDiv(BigMul(ReserveLimit(ms.tokenReserves), BigPow10(tokenDecimals)),
           BigPow10(tokenDecimals))

\* avgPriceUsd = (solanaPrice + basePrice) / 2 is 0 (or NaN): the division
\* TRADE_SIZE_USD / avgPriceUsd is not finite and BigInt() throws
AvgPriceIsZero(ms) == BigIsZero(RatAdd(ms.solanaPriceUsd, ms.basePriceUsd).num)

\* BigInt(Math.floor((TRADE_SIZE_USD / avgPriceUsd) * 10^tokenDecimals))
MaxTokensByUsd(ms, tradeSizeUsd) ==
    LET sum == RatAdd(ms.solanaPriceUsd, ms.basePriceUsd)
    IN BigDiv(BigMul(BigMul(Big(2 * tradeSizeUsd), BigPow10(tokenDecimals)),
                     sum.den), sum.num)

\* the first `high` of the search
SearchBound(ms, tradeSizeUsd) ==
    BigMin(BigMin(ReserveLimit(ms.virtualTokenReserves),
                  MaxTokensBaseInSolDecimals(ms)),
           MaxTokensByUsd(ms, tradeSizeUsd))

\* bug: a tolerance of 10 (percent)
WithinTolerance_Loose(solanaPrice, basePrice) ==
    BigLess(BigMul(RatAbsDiff(solanaPrice, basePrice).num, Big(200)),
            BigMul(RatAdd(solanaPrice, basePrice).num, Big(10)))

\* priceDiffPercent < tolerance, where priceDiffPercent is
\* |solana - base| / ((solana + base) / 2) * 100
WithinTolerance(solanaPrice, basePrice) ==
    BigLess(BigMul(RatAbsDiff(solanaPrice, basePrice).num,
                   Big(200 * tolerance.den)),
            BigMul(RatAdd(solanaPrice, basePrice).num, Big(tolerance.num)))

StillCheaper_Reversed(direction, solanaPrice, basePrice) ==
    IF direction = "SOLANA_TO_BASE" THEN RatLess(basePrice, solanaPrice)
                                    ELSE RatLess(solanaPrice, basePrice)

\* the venue bought on is still the cheaper one: the search goes up
StillCheaper(direction, solanaPrice, basePrice) ==
    IF direction = "SOLANA_TO_BASE" THEN RatLess(solanaPrice, basePrice)
                                    ELSE RatLess(basePrice, solanaPrice)

\* bug: every candidate replaces the best one
ImprovesBest_Always(priceDiff, best) == TRUE

\* priceDiff < bestPriceDiff
ImprovesBest(priceDiff, best) == best.inf \/ RatLess(priceDiff, best)

NoSolver ==
    [status |-> "idle", direction |-> "NONE", bound |-> <<>>, low |-> <<>>,
     high |-> <<>>, optimalSize |-> <<>>, bestPriceDiff |-> Infinity, i |-> 0,
     size |-> <<>>, converged |-> FALSE, evaluated |-> {}]

\* history: the candidate whose post-trade prices the loop has compared
Evaluated(s, mid, priceDiff) ==
    [s EXCEPT !.evaluated = @ \cup {[size |-> mid, priceDiff |-> priceDiff]}]

\* findEquilibriumTradeSize up to the loop
StartSearch(ms, direction, tradeSizeUsd) ==
    LET bound == SearchBound(ms, tradeSizeUsd)
    IN [NoSolver EXCEPT !.status = "running", !.direction = direction,
                        !.bound = bound, !.high = bound]

\* one iteration of the loop of findEquilibriumTradeSize
SearchStep(ms, s, solPriceUsd) ==
    LET mid == BigDiv(BigAdd(s.low, s.high), Big(2))
        post == CalculatePostArbitrageState(ms, mid, s.direction, solPriceUsd)
    IN IF BigIsZero(mid)
       THEN [s EXCEPT !.low = Big(1), !.i = @ + 1]
       ELSE IF ~post.finite
       THEN [s EXCEPT !.high = BigSub(mid, Big(1)), !.i = @ + 1]
       ELSE LET priceDiff == RatAbsDiff(post.solanaPriceUsd, post.basePriceUsd)
                better == ImprovesBest(priceDiff, s.bestPriceDiff)
                best == IF better THEN Finite(priceDiff) ELSE s.bestPriceDiff
                opt == IF better THEN mid ELSE s.optimalSize
            IN Evaluated(
               IF WithinTolerance(post.solanaPriceUsd, post.basePriceUsd)
               THEN [s EXCEPT !.status = "done", !.size = mid,
                              !.converged = TRUE, !.optimalSize = opt,
                              !.bestPriceDiff = best]
               ELSE IF StillCheaper(s.direction, post.solanaPriceUsd,
                                    post.basePriceUsd)
               THEN [s EXCEPT !.low = BigAdd(mid, Big(1)), !.i = @ + 1,
                              !.optimalSize = opt, !.bestPriceDiff = best]
               ELSE [s EXCEPT !.high = BigSub(mid, Big(1)), !.i = @ + 1,
                              !.optimalSize = opt, !.bestPriceDiff = best],
               mid, priceDiff)

\* bug: the spot check never returns
SpotBelowThreshold_Never(ms, cfg) == FALSE

\* Math.abs(priceDiffPercent) < MIN_PROFIT_THRESHOLD * 100, where
\* priceDiffPercent is (base - solana) / solana * 100; with a Solana price
\* of 0 the quotient is Infinity or NaN and the comparison is false
SpotBelowThreshold(ms, cfg) ==
    BigLess(BigMul(RatAbsDiff(ms.solanaPriceUsd, ms.basePriceUsd).num, Big(100)),
            BigMul(BigMul(ms.solanaPriceUsd.num, ms.basePriceUsd.den),
                   Big(cfg.MIN_PROFIT_THRESHOLD)))

SpotDirection_Reversed(ms) ==
    IF RatLess(ms.solanaPriceUsd, ms.basePriceUsd) THEN "BASE_TO_SOLANA"
                                                   ELSE "SOLANA_TO_BASE"

\* priceDiffPercent > 0 ? 'SOLANA_TO_BASE' : 'BASE_TO_SOLANA'
SpotDirection(ms) ==
    IF RatLess(ms.solanaPriceUsd, ms.basePriceUsd) THEN "SOLANA_TO_BASE"
                                                   ELSE "BASE_TO_SOLANA"

\* the SOL amount of the trade in USD: raw / 1e9 * solPriceUsd
SolAmountUsd(raw, solPriceUsd) ==
    Rat(BigMul(raw, Big(solPriceUsd)), Big(LAMPORTS_PER_SOL))

\* the USDC amount of the trade in USD: raw / 10^usdcDecimals
UsdcAmountUsd(raw) == Rat(raw, BigPow10(usdcDecimals))

\* costUsd and revUsd of a trade of tokenAmount in the direction
ProfitEstimate(ms, tokenAmount, direction, solPriceUsd) ==
    LET isBuySolana == direction = "SOLANA_TO_BASE"
        pump == GetPumpFunEffectivePrice(ms.virtualSolReserves,
                    ms.virtualTokenReserves, tokenAmount, isBuySolana)
        uni == GetUniswapV2EffectivePrice(ms.usdcReserves, ms.tokenReserves,
                    TradeSizeBase(tokenAmount), ~isBuySolana)
    IN IF pump.infinite \/ uni.infinite
       THEN [finite |-> FALSE]
       ELSE IF isBuySolana
       THEN [finite |-> TRUE, costUsd |-> SolAmountUsd(pump.amount, solPriceUsd),
             revUsd |-> UsdcAmountUsd(uni.amount)]
       ELSE [finite |-> TRUE, costUsd |-> UsdcAmountUsd(uni.amount),
             revUsd |-> SolAmountUsd(pump.amount, solPriceUsd)]

\* profitPercent < MIN_PROFIT_THRESHOLD * 100, where profitPercent is
\* (revUsd - costUsd) / costUsd * 100; with a cost of 0 (or an infinite
\* one) the quotient is not a number below the threshold
ProfitPercentBelowThreshold(est, cfg) ==
    /\ est.finite
    /\ RatLess(Rat(BigMul(est.revUsd.num, Big(100)), est.revUsd.den),
               Rat(BigMul(est.costUsd.num, Big(cfg.MIN_PROFIT_THRESHOLD + 100)),
                   est.costUsd.den))

NoEstimate == [finite |-> FALSE]

NoPrior == [run |-> FALSE]

NoMarketStats == MarketStats(<<>>, <<>>, <<>>, <<>>, 0)

NoConfig == [MIN_PROFIT_THRESHOLD |-> 0, TRADE_SIZE_USD |-> 0, SOLANA_SOL_PRICE_USD |-> 0]

InitAnalyzer ==
    /\ marketStats = NoMarketStats
    /\ analyzerConfig = NoConfig
    /\ solver = NoSolver
    /\ analysis = [pc |-> "idle", result |-> "none", exit |-> "none", round |-> 0,
                   estimate |-> NoEstimate, prior |-> NoPrior]

\* how far the grid of snapshots goes
MaxSolStep == 1
MaxUsdcStep == 2
MaxTokenStep == 1

\* the grid of small pools: the Solana quote reserve is (4 + a) * 10^10
\* lamports against 1000 tokens, the Base pool (4 + u) * 10^7 USDC units
\* against 1000 + 100 * t tokens, SOL at 1 USD, threshold 2%, cap 1 USD
\* (the cap is the search bound) or 1000 USD (the reserves are)
GridInputs ==
    { [ms |-> HalfReal(MarketStats(BigMul(Big(4 + a), BigPow10(10)), Big(1000),
                                   BigMul(Big(4 + u), BigPow10(7)),
                                   Big(1000 + 100 * t), 1)),
       cfg |-> [MIN_PROFIT_THRESHOLD |-> 2, TRADE_SIZE_USD |-> c,
                SOLANA_SOL_PRICE_USD |-> 1]] :
      a \in 0..MaxSolStep, u \in 0..MaxUsdcStep, t \in 0..MaxTokenStep,
      c \in {1, 1000} }

\* the reserves of runVerification: 30 * 10^9 lamports and 10^15 tokens
\* against 10,000 * 10^6 USDC and baseToken * 10^6 tokens, SOL at 150 USD,
\* threshold 1%, cap 1000 USD
VerificationStats(baseToken) ==
    MarketStats(BigMul(Big(30), BigPow10(9)), BigPow10(15),
                BigMul(Big(10000), BigPow10(6)),
                BigMul(Big(baseToken), BigPow10(6)), 150)

VerificationConfig ==
    [MIN_PROFIT_THRESHOLD |-> 1, TRADE_SIZE_USD |-> 1000, SOLANA_SOL_PRICE_USD |-> 150]

\* Base token reserves that make the bonding curve about 5% cheaper
AboutFivePercent == {2116402116, 2110000000, 2105000000, 2100000000}

VerificationInputs ==
    { [ms |-> HalfReal(VerificationStats(t)), cfg |-> VerificationConfig] :
      t \in AboutFivePercent }

\* the same venues with a gap of 0.5% and a threshold of 2%
HalfPercentGapInput ==
    [ms |-> HalfReal(MarketStats(BigMul(Big(30), BigPow10(9)), BigPow10(15),
                                 BigMul(Big(10000), BigPow10(6)),
                                 BigMul(Big(2211166), BigPow10(9)), 150)),
     cfg |-> [MIN_PROFIT_THRESHOLD |-> 2, TRADE_SIZE_USD |-> 1000,
              SOLANA_SOL_PRICE_USD |-> 150]]

\* a Base pool drained to one raw unit of USDC
DrainedPoolInput ==
    [ms |-> HalfReal(MarketStats(BigMul(Big(30), BigPow10(9)), Big(1000), Big(1),
                                 Big(1000), 1)),
     cfg |-> [MIN_PROFIT_THRESHOLD |-> 2, TRADE_SIZE_USD |-> 1000,
              SOLANA_SOL_PRICE_USD |-> 1]]

\* a bonding curve close to completion: 50 of its 1000 virtual tokens are
\* real; the curve is the cheaper venue by a fifth
NearCompletionInput ==
    [ms |-> WithRealReserves(MarketStats(BigMul(Big(4), BigPow10(10)), Big(1000),
                                         BigMul(Big(5), BigPow10(7)), Big(1000), 1),
                             BigMul(Big(4), BigPow10(10)), Big(50)),
     cfg |-> [MIN_PROFIT_THRESHOLD |-> 2, TRADE_SIZE_USD |-> 1000,
              SOLANA_SOL_PRICE_USD |-> 1]]

\* fetchMarketData: the SOL price of the snapshot is the one of
\* getSolPrice when COINMARKETCAP_API_KEY is set and the request succeeds,
\* the one of the configuration otherwise
FetchedSolPriceUsd(cfg, apiKey, priceFetcher) ==
    IF apiKey /\ priceFetcher.ok THEN priceFetcher.sol
    ELSE cfg.SOLANA_SOL_PRICE_USD

\* a snapshot fetched with an API key while SOL trades at 2 USD, the
\* configuration holding 1 USD
CoinMarketCapConfig ==
    [MIN_PROFIT_THRESHOLD |-> 2, TRADE_SIZE_USD |-> 1000, SOLANA_SOL_PRICE_USD |-> 1]

CoinMarketCapInput ==
    [ms |-> HalfReal(MarketStats(BigMul(Big(4), BigPow10(10)), Big(1000),
                                 BigMul(Big(9), BigPow10(7)), Big(1000),
                                 FetchedSolPriceUsd(CoinMarketCapConfig, TRUE,
                                                    [ok |-> TRUE, sol |-> 2]))),
     cfg |-> CoinMarketCapConfig]

AnalyzerInputs ==
    GridInputs \cup VerificationInputs
        \cup {HalfPercentGapInput, DrainedPoolInput, NearCompletionInput,
              CoinMarketCapInput}

\* fetchMarketData hands a snapshot to analyzeOpportunity
NewMarketStats ==
    /\ analysis.pc = "idle"
    /\ \E input \in AnalyzerInputs :
          /\ marketStats' = input.ms
          /\ analyzerConfig' = input.cfg
    /\ analysis' = [analysis EXCEPT !.pc = "called"]
    /\ UNCHANGED <<solver, NotAnalyzer>>

\* analyzeOpportunity up to the loop of findEquilibriumTradeSize
AnalyzeOpportunityCall ==
    /\ analysis.pc = "called"
    /\ IF SpotBelowThreshold(marketStats, analyzerConfig)
       THEN /\ analysis' = [analysis EXCEPT !.pc = "done", !.result = "null",
                                            !.exit = "spot"]
            /\ UNCHANGED solver
       ELSE IF AvgPriceIsZero(marketStats)
       THEN /\ analysis' = [analysis EXCEPT !.pc = "done", !.result = "threw",
                                            !.exit = "bound"]
            /\ UNCHANGED solver
       ELSE /\ analysis' = [analysis EXCEPT !.pc = "searching"]
            /\ solver' = StartSearch(marketStats, SpotDirection(marketStats),
                                     analyzerConfig.TRADE_SIZE_USD)
    /\ UNCHANGED <<marketStats, analyzerConfig, NotAnalyzer>>

\* one iteration of the search loop
FindEquilibriumStep ==
    /\ analysis.pc = "searching"
    /\ solver.status = "running"
    /\ solver.i < iterations
    /\ solver' = SearchStep(marketStats, solver, analyzerConfig.SOLANA_SOL_PRICE_USD)
    /\ UNCHANGED <<marketStats, analyzerConfig, analysis, NotAnalyzer>>

\* the budget is used up: return optimalSize > 0n ? optimalSize : 0n
FindEquilibriumReturn ==
    /\ analysis.pc = "searching"
    /\ solver.status = "running"
    /\ solver.i = iterations
    /\ solver' = [solver EXCEPT !.status = "done", !.size = solver.optimalSize]
    /\ UNCHANGED <<marketStats, analyzerConfig, analysis, NotAnalyzer>>

\* analyzeOpportunity after findEquilibriumTradeSize
AnalyzeOpportunityReturn ==
    /\ analysis.pc = "searching"
    /\ solver.status = "done"
    /\ LET est == ProfitEstimate(marketStats, solver.size, solver.direction,
                                 analyzerConfig.SOLANA_SOL_PRICE_USD)
       IN analysis' =
             IF BigIsZero(solver.size)
             THEN [analysis EXCEPT !.pc = "done", !.result = "null",
                                   !.exit = "size"]
             ELSE IF ProfitPercentBelowThreshold(est, analyzerConfig)
             THEN [analysis EXCEPT !.pc = "done", !.result = "null",
                                   !.exit = "profit", !.estimate = est]
             ELSE [analysis EXCEPT !.pc = "done", !.result = "opportunity",
                                   !.exit = "end", !.estimate = est]
    /\ UNCHANGED <<marketStats, analyzerConfig, solver, NotAnalyzer>>

\* the snapshot of the reserves calculatePostArbitrageState computes
PostTradeStats(post, solPriceUsd) ==
    MarketStats(post.newSolVSol, post.newSolVToken, post.newBaseUsdc,
                post.newBaseToken, solPriceUsd)

\* the analyzer is run again on the reserves after the trade of the size
\* the solver returned
ReAnalyze ==
    /\ analysis.pc = "done"
    /\ analysis.round = 0
    /\ solver.status = "done"
    /\ ~BigIsZero(solver.size)
    /\ LET post == CalculatePostArbitrageState(marketStats, solver.size,
                       solver.direction, analyzerConfig.SOLANA_SOL_PRICE_USD)
       IN /\ post.finite
          /\ marketStats' = PostTradeStats(post, analyzerConfig.SOLANA_SOL_PRICE_USD)
    /\ analysis' = [pc |-> "called", result |-> "none", exit |-> "none",
                    round |-> 1, estimate |-> NoEstimate,
                    prior |-> [run |-> TRUE, result |-> analysis.result,
                               converged |-> solver.converged,
                               size |-> solver.size, bound |-> solver.bound,
                               direction |-> solver.direction]]
    /\ solver' = NoSolver
    /\ UNCHANGED <<analyzerConfig, NotAnalyzer>>

NextAnalyzer ==
    \/ NewMarketStats
    \/ AnalyzeOpportunityCall
    \/ FindEquilibriumStep
    \/ FindEquilibriumReturn
    \/ AnalyzeOpportunityReturn
    \/ ReAnalyze

(***************************************************************************)
(* The legs of simulateArbitrage.  The reserves here are small enough for  *)
(* the integers of the model checker; the bonding curve is the one of      *)
(* getPumpFunEffectivePrice, the pool the one of the Uniswap V2 router.    *)
(***************************************************************************)
\* how many times one Opportunity is simulated
MaxSimulations == 2

\* the reserves the venues can have: the bonding curve in lamports and raw
\* tokens, the pool in raw USDC and raw tokens
VenueStates ==
    { [virtualSolReserves |-> vSol, virtualTokenReserves |-> 1000,
       usdcReserves |-> usdc, tokenReserves |-> 1000] :
      vSol \in {40000, 41000}, usdc \in {50000, 51000} }

TradeSizes == {10, 20}

\* the lamports of a trade of tokenAmount on the bonding curve with its fee
BondingCurveAmount(venue, tokenAmount, isBuy) ==
    Small(GetPumpFunEffectivePrice(Big(venue.virtualSolReserves),
                                   Big(venue.virtualTokenReserves),
                                   Big(tokenAmount), isBuy).amount)

\* router.getAmountsOut for a sale of amountIn tokens
GetAmountsOut(venue, amountIn) ==
    (amountIn * 997 * venue.usdcReserves)
        \div (venue.tokenReserves * 1000 + amountIn * 997)

\* router.getAmountsIn for a purchase of amountOut tokens
GetAmountsIn(venue, amountOut) ==
    (venue.usdcReserves * amountOut * 1000)
        \div ((venue.tokenReserves - amountOut) * 997) + 1

\* BigInt(Math.floor(baseSolCost * 1.20))
MaxSolCost(solAmount) == (solAmount * 120) \div 100

\* BigInt(Math.floor(solAmount * LAMPORTS_PER_SOL * 0.98))
MinSolOutput(solAmount) == (solAmount * 98) \div 100

\* simulateTransaction of the Solana leg: the program of the bonding curve
\* rejects a buy that costs more than maxSolCost and a sale that pays less
\* than minSolOutput
SolanaLegAccepted(venue, direction, tokenAmount, solAmount) ==
    IF direction = "SOLANA_TO_BASE"
    THEN BondingCurveAmount(venue, tokenAmount, TRUE) <= MaxSolCost(solAmount)
    ELSE BondingCurveAmount(venue, tokenAmount, FALSE) >= MinSolOutput(solAmount)

\* the amount simulateArbitrage reports for the Solana leg: inputAmount of
\* the buy (maxSolCost) or outputAmount of the sale (solOutput)
SolanaLegAmount(direction, solAmount) ==
    IF direction = "SOLANA_TO_BASE" THEN MaxSolCost(solAmount) ELSE solAmount

\* the amount simulateArbitrage reports for the Base leg: outputAmount of
\* the sale (sellSim.amountOut) or inputAmount of the buy (buySim.amountIn)
BaseLegAmount(venue, direction, tokenAmount) ==
    IF direction = "SOLANA_TO_BASE" THEN GetAmountsOut(venue, tokenAmount)
                                    ELSE GetAmountsIn(venue, tokenAmount)

NoReport == [run |-> FALSE]

\* buySimulation and sellSimulation of one call of simulateArbitrage
LegReport(venue, direction, tokenAmount, solAmount) ==
    [run |-> TRUE, venue |-> venue,
     solanaOk |-> SolanaLegAccepted(venue, direction, tokenAmount, solAmount),
     solanaAmount |-> SolanaLegAmount(direction, solAmount),
     baseAmount |-> BaseLegAmount(venue, direction, tokenAmount)]

NoVenueState ==
    [virtualSolReserves |-> 0, virtualTokenReserves |-> 0, usdcReserves |-> 0,
     tokenReserves |-> 0]

InitLegs ==
    /\ venueState = NoVenueState
    /\ legSim = [pc |-> "idle", direction |-> "NONE", tokenAmount |-> 0,
                 solAmount |-> 0, runs |-> 0, report |-> NoReport,
                 prior |-> NoReport]

\* analyzeOpportunity returns an Opportunity: optimalTradeSize.solana holds
\* tokenAmount and the solAmount of the trade at the reserves of the
\* snapshot
NewOpportunity ==
    /\ legSim.pc = "idle"
    /\ \E venue \in VenueStates, direction \in Directions, size \in TradeSizes :
          /\ venueState' = venue
          /\ legSim' = [pc |-> "ready", direction |-> direction,
                        tokenAmount |-> size,
                        solAmount |-> BondingCurveAmount(venue, size,
                                          direction = "SOLANA_TO_BASE"),
                        runs |-> 0, report |-> NoReport, prior |-> NoReport]
    /\ UNCHANGED NotLegs

\* trades of others move the reserves of the venues
VenueMoves ==
    /\ legSim.pc = "ready"
    /\ \E venue \in VenueStates \ {venueState} : venueState' = venue
    /\ UNCHANGED <<legSim, NotLegs>>

\* simulateArbitrage(opportunity) settles
SimulateLegs ==
    /\ legSim.pc = "ready"
    /\ legSim.runs < MaxSimulations
    /\ legSim' = [legSim EXCEPT
                     !.runs = @ + 1,
                     !.prior = legSim.report,
                     !.report = LegReport(venueState, legSim.direction,
                                          legSim.tokenAmount, legSim.solAmount)]
    /\ UNCHANGED <<venueState, NotLegs>>

\* the Opportunity is dropped
DropOpportunity ==
    /\ legSim.pc = "ready"
    /\ legSim.runs = MaxSimulations
    /\ legSim' = [legSim EXCEPT !.pc = "idle"]
    /\ UNCHANGED <<venueState, NotLegs>>

NextLegs ==
    \/ NewOpportunity
    \/ VenueMoves
    \/ SimulateLegs
    \/ DropOpportunity

(***************************************************************************)
(* PriceFetcher                                                            *)
(***************************************************************************)
\* cacheTimeout in ticks of the clock
cacheTimeout == 2
\* how far the clock of the PriceFetcher runs
MaxPriceClock == 4
\* calls of fetchPrices that await their response at once
MaxRequests == 2

\* the prices CoinMarketCap answers with
PriceQuotes == {[sol |-> 150, eth |-> 3300], [sol |-> 151, eth |-> 3301]}

NoPrices == [isNull |-> TRUE]

TokenPrices(quote, t) ==
    [isNull |-> FALSE, sol |-> quote.sol, eth |-> quote.eth, lastUpdated |-> t]

\* this.cache && Date.now() - this.lastFetchTime < this.cacheTimeout
CacheValid(cache, fetched, t) == ~cache.isNull /\ t - fetched < cacheTimeout

\* bug: a failed request always throws
AfterFailure_Throws(cache) == [threw |-> TRUE, prices |-> NoPrices]

\* the catch block of fetchPrices: the cached prices when there are any,
\* an error otherwise
AfterFailure(cache) ==
    IF cache.isNull THEN [threw |-> TRUE, prices |-> NoPrices]
    ELSE [threw |-> FALSE, prices |-> cache]

PriceStep(op, outcome, prices) ==
    [op |-> op, outcome |-> outcome, prices |-> prices,
     preCache |-> priceCache, preFetchTime |-> lastFetchTime,
     everCached |-> priceCall.everCached, at |-> priceClock]

InitPrices ==
    /\ priceCache = NoPrices
    /\ lastFetchTime = 0
    /\ requests = 0
    /\ priceClock = 1
    /\ priceCall = [op |-> "none", outcome |-> "none", prices |-> NoPrices,
                    preCache |-> NoPrices, preFetchTime |-> 0,
                    everCached |-> FALSE, at |-> 0]

\* fetchPrices up to the await: the cached prices are returned while they
\* are valid, a request is sent otherwise
FetchPricesCall ==
    /\ IF CacheValid(priceCache, lastFetchTime, priceClock)
       THEN /\ priceCall' = PriceStep("fetchPrices", "cached", priceCache)
            /\ UNCHANGED requests
       ELSE /\ requests < MaxRequests
            /\ requests' = requests + 1
            /\ priceCall' = PriceStep("fetchPrices", "requested", NoPrices)
    /\ UNCHANGED <<priceCache, lastFetchTime, priceClock>>
    /\ UNCHANGED NotPrices

\* the response holds both prices: they are cached and returned
RequestSucceeds ==
    /\ requests > 0
    /\ \E quote \in PriceQuotes :
          /\ priceCache' = TokenPrices(quote, priceClock)
          /\ priceCall' = [PriceStep("response", "fresh",
                                     TokenPrices(quote, priceClock))
                              EXCEPT !.everCached = TRUE]
    /\ lastFetchTime' = priceClock
    /\ requests' = requests - 1
    /\ UNCHANGED priceClock
    /\ UNCHANGED NotPrices

\* axios.get rejects or the response lacks a price
RequestFails ==
    /\ requests > 0
    /\ priceCall' = PriceStep("failure",
                              IF AfterFailure(priceCache).threw THEN "threw"
                                                                ELSE "stale",
                              AfterFailure(priceCache).prices)
    /\ requests' = requests - 1
    /\ UNCHANGED <<priceCache, lastFetchTime, priceClock>>
    /\ UNCHANGED NotPrices

\* PriceFetcher.clearCache
ClearCache ==
    /\ priceCache' = NoPrices
    /\ lastFetchTime' = 0
    /\ priceCall' = PriceStep("clearCache", "none", NoPrices)
    /\ UNCHANGED <<requests, priceClock>>
    /\ UNCHANGED NotPrices

PriceTick ==
    /\ priceClock < MaxPriceClock
    /\ priceClock' = priceClock + 1
    /\ UNCHANGED <<priceCache, lastFetchTime, requests, priceCall>>
    /\ UNCHANGED NotPrices

NextPrices ==
    \/ FetchPricesCall
    \/ RequestSucceeds
    \/ RequestFails
    \/ ClearCache
    \/ PriceTick

(***************************************************************************)
(* The polling subscription of subscribeToTradeEvents and                  *)
(* EventCoordinator.start / stop.  The Base subscription                   *)
(* (subscribeToSwapEvents) has the same loop and the same unsubscribe.     *)
(***************************************************************************)
\* new transactions with a trade event that one poll finds
MaxNewTrades == 2

InitStop ==
    /\ solanaSubscription = "null"
    /\ isUnsubscribed = FALSE
    /\ pollingActive = FALSE
    /\ poller = [pc |-> "idle", todo |-> 0]
    /\ stopLog = [stopped |-> FALSE, inProgress |-> FALSE, callbacks |-> 0,
                  cycles |-> 0]

\* startPolling after a pollForTradeEvents call returned:
\* while (!isUnsubscribed) { await setTimeout ... }
AfterPoll(unsubscribed) ==
    IF unsubscribed THEN [pc |-> "ended", todo |-> 0]
    ELSE [pc |-> "sleeping", todo |-> 0]

\* EventCoordinator.start: subscribeToSolanaEvents; startPolling runs up to
\* the await of getSignaturesForAddress in the first poll
StartPolling ==
    /\ solanaSubscription = "null"
    /\ poller.pc = "idle"
    /\ ~pollingActive
    /\ pollingActive' = TRUE
    /\ solanaSubscription' = "handle"
    /\ poller' = [pc |-> "signatures", todo |-> 0]
    /\ UNCHANGED <<isUnsubscribed, stopLog>>
    /\ UNCHANGED <<coordVars, NotStop>>

\* getSignaturesForAddress settles: the poll returns when nothing is new
\* (or the request failed), otherwise it awaits the first getTransaction
SignaturesReturn ==
    \E fresh \in 0..MaxNewTrades :
        /\ poller.pc = "signatures"
        /\ poller' = IF fresh = 0 THEN AfterPoll(isUnsubscribed)
                     ELSE [pc |-> "transaction", todo |-> fresh]
        /\ UNCHANGED <<solanaSubscription, isUnsubscribed, pollingActive, stopLog>>
        /\ UNCHANGED <<coordVars, NotStop>>

\* getTransaction settles with a trade event: callback(tradeEvent), which
\* is handleSolanaTradeEvent up to its await, then the next transaction
TransactionReturn ==
    \E solAmount \in SolAmounts, tokenAmount \in TokenAmounts :
        /\ poller.pc = "transaction"
        /\ LET p == SolPerToken(solAmount, tokenAmount) IN
           /\ currentSnapshot' = UpdatedCurrent(currentSnapshot, "solana", p, now)
           /\ baselineSnapshot' =
                UpdatedBaseline(currentSnapshot, baselineSnapshot, "solana", p, now)
        /\ TriggerAnalysisIfReady("solana", SolPerToken(solAmount, tokenAmount))
        /\ poller' = IF poller.todo = 1 THEN AfterPoll(isUnsubscribed)
                     ELSE [poller EXCEPT !.todo = @ - 1]
        /\ stopLog' =
             IF stopLog.stopped
             THEN [stopLog EXCEPT
                     !.callbacks = @ + 1,
                     !.cycles = IF TriggerVerdict(now, lastAnalysisTime,
                                                  isAnalysisRunning) = "started"
                                THEN @ + 1 ELSE @]
             ELSE stopLog
        /\ UNCHANGED <<solanaSubscription, isUnsubscribed, pollingActive>>
        /\ UNCHANGED <<now, isStarted, callbackKind, inflightHttp,
                       lastEnd, handlerEscaped>>
        /\ UNCHANGED NotStop

\* the timer of the loop fires: if (!isUnsubscribed) the next poll starts
Wake ==
    /\ poller.pc = "sleeping"
    /\ poller' = IF isUnsubscribed THEN [pc |-> "ended", todo |-> 0]
                 ELSE [pc |-> "signatures", todo |-> 0]
    /\ UNCHANGED <<solanaSubscription, isUnsubscribed, pollingActive, stopLog>>
    /\ UNCHANGED <<coordVars, NotStop>>

\* EventCoordinator.stop: solanaSubscription.unsubscribe()
StopEvents ==
    /\ solanaSubscription = "handle"
    /\ isUnsubscribed' = TRUE
    /\ pollingActive' = FALSE
    /\ solanaSubscription' = "null"
    /\ stopLog' = [stopLog EXCEPT
                     !.stopped = TRUE,
                     !.inProgress = poller.pc \in {"signatures", "transaction"}]
    /\ UNCHANGED poller
    /\ UNCHANGED <<coordVars, NotStop>>

NextStop ==
    \/ StartPolling
    \/ SignaturesReturn
    \/ TransactionReturn
    \/ Wake
    \/ StopEvents
    \/ CycleEnd
    \/ Tick

NoTime == 0 - 1

Init ==
    /\ now = analysisCooldownMs
    /\ isStarted = FALSE
    /\ callbackKind \in {"server", "propagating"}
    /\ isAnalysisRunning = FALSE
    /\ lastAnalysisTime = 0
    /\ currentSnapshot = Null
    /\ baselineSnapshot = Null
    /\ inflightEvent = 0
    /\ inflightHttp = 0
    /\ lastEv = [seq |-> 0, chain |-> "none", verdict |-> "none", price |-> 0,
                 handed |-> Null]
    /\ lastStart = NoTime
    /\ lastEnd = [time |-> NoTime, outcome |-> "none"]
    /\ handlerEscaped = FALSE
    /\ eventsDuringCycle = 0
    /\ InitRun
    /\ InitTx
    /\ InitTracker
    /\ InitFeed
    /\ InitAnalyzer
    /\ InitLegs
    /\ InitPrices
    /\ InitStop

Next ==
    \/ StartMonitoring
    \/ HandleSolanaTradeEvent
    \/ HandleBaseSwapEvent
    \/ CycleEnd
    \/ HttpTriggerAnalysis
    \/ HttpRunEnd
    \/ Tick

Spec == Init /\ [][Next]_vars

NextExec ==
    \/ RunStart
    \/ FetchMarketData
    \/ AnalyzeOpportunity
    \/ Simulate
    \/ BuyPrepare
    \/ BuySubmit
    \/ BuyConfirm
    \/ SellPrepare
    \/ SellSubmit
    \/ SellConfirm
    \/ PostTradeBalances
    \/ NotifyTradeExecution
    \/ NotifyTradeFailed
    \/ RunRestart

SpecExec == Init /\ [][NextExec]_vars

SpecConfirm == Init /\ [][NextConfirm]_vars

SpecTracker == Init /\ [][NextTracker]_vars

SpecFeed == Init /\ [][NextFeed]_vars

SpecAnalyzer == Init /\ [][NextAnalyzer]_vars

SpecLegs == Init /\ [][NextLegs]_vars

SpecPrices == Init /\ [][NextPrices]_vars

SpecStop == Init /\ [][NextStop]_vars

(***************************************************************************)
(* Claims on the coordinator and the server (Spec)                         *)
(***************************************************************************)
\* a step in which a trade event of either venue is handled
EventStep == lastEv'.seq # lastEv.seq
\* a step in which the coordinator starts a cycle
CycleStarts == inflightEvent' > inflightEvent
\* a step in which a coordinator cycle ends
CycleEnds == inflightEvent' < inflightEvent
\* some coordinator cycle has ended
SomeCycleEnded == lastEnd.outcome # "none"

\* C1: for one EventCoordinator at most one invocation of the analysis
\* callback is in flight at any time, whatever events of the two venues
\* arrive while a cycle runs.
C1_SingleFlight == inflightEvent <= 1

\* C1 witness: two events arrived during the cycle in flight, the last one
\* after the cooldown had elapsed, and still one cycle is in flight.
C1_Witness ==
    /\ inflightEvent = 1
    /\ eventsDuringCycle = 2
    /\ lastEv.verdict = "running"

\* C2: at most one run of runArbitrageAnalysis is in flight system-wide,
\* counting the runs started by the coordinator's callback and the runs
\* started by POST /trigger-analysis.
C2_OneCycleSystemWide == inflightEvent + inflightHttp <= 1

\* C3: isAnalysisRunning is never left set once the cycle has ended, however
\* the callback ended, and no exception leaves the event handler.
C3_FlagReleased ==
    /\ isAnalysisRunning => inflightEvent > 0
    /\ ~handlerEscaped

\* C3 witness: a cycle whose callback threw has ended and the flag is clear.
C3_Witness ==
    /\ lastEnd.outcome = "threw"
    /\ inflightEvent = 0
    /\ ~isAnalysisRunning

\* C7 as stated: an event that arrives less than analysisCooldownMs after
\* the last completed analysis starts no cycle.
C7_CooldownFromCompletion ==
    [][(SomeCycleEnded /\ now - lastEnd.time < analysisCooldownMs)
         => ~CycleStarts]_vars

\* C7 amended: an event that arrives less than analysisCooldownMs after the
\* start of the coordinator's last cycle starts no cycle.
C7_CooldownFromStart ==
    [][(lastStart # NoTime /\ now - lastStart < analysisCooldownMs)
         => ~CycleStarts]_vars

\* C7 witness: after a completed cycle an event was dropped by the cooldown.
C7_Witness ==
    /\ SomeCycleEnded
    /\ inflightEvent = 0
    /\ lastEv.verdict = "cooldown"
    /\ now - lastStart < analysisCooldownMs

\* C8 as stated: after every cycle, whatever its outcome, the baseline is
\* the current snapshot.
C8_ResetAfterEveryCycle ==
    [][CycleEnds => baselineSnapshot' = currentSnapshot']_vars

\* C8 amended: after every cycle whose callback returned, the baseline is
\* the current snapshot.
C8_ResetAfterReturn ==
    [][(CycleEnds /\ lastEnd'.outcome = "returned")
         => baselineSnapshot' = currentSnapshot']_vars

\* C8 witness: a cycle has returned and the baseline holds both venues'
\* prices, which only a reset can give it.
C8_Witness ==
    /\ lastEnd.outcome = "returned"
    /\ ~baselineSnapshot.isNull
    /\ baselineSnapshot.solanaPrice > 0
    /\ baselineSnapshot.basePrice > 0
    /\ baselineSnapshot = currentSnapshot

\* C9: once the coordinator's cycles have all completed and the cooldown has
\* elapsed since the last completion, the next event of either venue starts
\* a cycle.
C9_NextEventStarts ==
    [][(/\ EventStep
        /\ inflightEvent = 0
        /\ SomeCycleEnded
        /\ now - lastEnd.time >= analysisCooldownMs)
         => (inflightEvent' = 1 /\ isAnalysisRunning')]_vars

\* C9 witness: a cycle was started by an event that came at least a cooldown
\* after the previous cycle's completion.
C9_Witness ==
    /\ SomeCycleEnded
    /\ lastEv.verdict = "started"
    /\ inflightEvent = 1
    /\ lastStart - lastEnd.time >= analysisCooldownMs

(***************************************************************************)
(* Claims about one run of runArbitrageAnalysis (SpecExec)                 *)
(***************************************************************************)
SellSubmitted == \E i \in 1..Len(submissions) : submissions[i] = "sell"

\* C4: the sell leg is submitted only after the buy leg is known to have
\* succeeded; a buy leg that failed or whose confirmation did not arrive is
\* never followed by a sell
C4_SellOnlyAfterBuyConfirmed == SellSubmitted => buy = "confirmed"

\* what the caller of executeArbitrage and the notification sink get to see
CallerView ==
    [outcome |-> execOutcome, reason |-> notified.reason, result |-> runResult]

\* what they see when the buy leg fails and no leg succeeded
FailedView ==
    [outcome |-> ExecOutcomeAt(OnLegFailure("buy"), "none"),
     reason |-> "Execution failed", result |-> "threw"]

\* C5: an execution whose buy leg succeeded and whose sell leg failed ends
\* in an outcome the caller can tell apart from the one where no leg
\* succeeded
C5_PartialDistinguished ==
    (pc = "done" /\ LegReturned(buy) /\ sell = "failed")
        => CallerView # FailedView

\* C6: each leg is submitted at most once, buy before sell, and once a leg
\* has failed nothing more is submitted in that run (no retry, no reversing
\* trade)
C6_AtMostOncePerLeg ==
    /\ submissions \in {<<>>, <<"buy">>, <<"buy", "sell">>}
    /\ buy = "failed" => ~SellSubmitted

C6_Witness ==
    /\ pc = "done"
    /\ LegReturned(buy)
    /\ sell = "failed"
    /\ submissions = <<"buy", "sell">>

\* C10: executeArbitrage is called only with an opportunity and a simulation
\* that succeeded; a simulation whose net profit is below
\* MIN_PROFIT_THRESHOLD x total cost has success = false and the run ends
\* without a call of executeArbitrage
C10_ExecutorOnlyAfterSuccess ==
    /\ (execCalls > 0 \/ submissions # <<>>)
           => opp.found /\ sim.kind = "result" /\ sim.success
    /\ (sim.kind = "result"
          /\ sim.netProfitUsd * 100 < MinProfitThresholdPct * sim.totalCostUsd)
           => ~sim.success /\ execCalls = 0 /\ submissions = <<>>

C10_Witness ==
    /\ pc = "done"
    /\ runCfg.autoExecute /\ runCfg.solanaKey /\ runCfg.baseKey
    /\ sim.kind = "result"
    /\ sim.netProfitUsd = 1
    /\ ~sim.success
    /\ execCalls = 0

\* simulateArbitrage returned and the run did not go on to the executor
SimulationReturned == sim.kind # "none"

\* C11: whenever simulateArbitrage rejects an opportunity it returns a
\* result with success = false and a non-empty failureReason, never a value
\* without a reason
C11_RejectionHasReason ==
    (SimulationReturned /\ SimulationRejected(sim))
        => sim.kind = "result" /\ ~sim.success /\ sim.failureReason # "none"

\* C12: fetchMarketData returns a snapshot with the reserves of both venues,
\* all strictly positive, or null; on null the run ends with an error
\* before analyzer, simulator and executor
C12_SnapshotWholeOrNull ==
    /\ market.kind = "stats" =>
          /\ market.solana.virtualSolReserves > 0
          /\ market.solana.virtualTokenReserves > 0
          /\ market.solana.realSolReserves > 0
          /\ market.solana.realTokenReserves > 0
          /\ market.base.usdcReserves > 0
          /\ market.base.tokenReserves > 0
    /\ market.kind = "null" =>
          /\ pc = "done" /\ runResult = "threw"
          /\ opp = NoOpportunity /\ sim = NoSimulation
          /\ execCalls = 0 /\ submissions = <<>>
    /\ (opp.found \/ sim.kind # "none" \/ execCalls > 0) => market.kind = "stats"

C12_Witness == market.kind = "null" /\ pc = "done" /\ runResult = "threw"

\* C13: no leg is submitted until the balances both legs need have been
\* checked: a wallet without the balance for the sell leg makes the
\* execution fail before the buy leg is submitted
C13_ValidatedBeforeBuy ==
    (execCalls > 0 /\ opp.direction = "SOLANA_TO_BASE" /\ ~runCfg.tokenEnough)
        => submissions = <<>>

\* executeArbitrage was called and the run is over
ExecutionOver == pc = "done" /\ execCalls > 0

\* C14: a call of executeArbitrage that ended is followed by exactly one
\* outcome notification: notifyTradeExecution if it completed,
\* notifyTradeFailed if it failed, never both and never none
C14_ExactlyOneNotification ==
    ExecutionOver =>
        /\ execOutcome = "completed" =>
               notified.executed = 1 /\ notified.failed = 0
        /\ execOutcome = "threw" =>
               notified.executed = 0 /\ notified.failed = 1

\* C15: a failure of the notification sink or of the post-trade balance
\* fetch does not change the outcome: an execution whose two legs both
\* returned is returned as executed and not reported as a failed trade
C15_SinkFailureHarmless ==
    (ExecutionOver /\ execOutcome = "completed")
        => runResult = "executed" /\ notified.reason = "none"

(***************************************************************************)
(* Claims about sendAndConfirmTransactionWithPolling (SpecConfirm)         *)
(***************************************************************************)
\* a poll that saw the transaction, without error, at the awaited
\* commitment or a stronger one
SeenAtCommitment ==
    \E k \in 1..Len(polled) :
        \/ polled[k] = commitment
        \/ commitment = "confirmed" /\ polled[k] = "finalized"
        \/ commitment = "processed" /\ polled[k] \in {"confirmed", "finalized"}

\* C16: the call returns a signature only if some poll saw the transaction
\* without error at the awaited commitment or a stronger one; a poll budget
\* spent without that ends in an error
C16_ReturnsOnlyWhenConfirmed == txPc = "returned" => SeenAtCommitment

\* C17: the call ends after at most maxRetries + 1 status polls, whatever
\* the chain reports, and a poll that reports an error is the last one
C17_BoundedPolls ==
    /\ Len(polled) <= maxRetries + 1
    /\ \A k \in 1..Len(polled) :
          polled[k] = "err" => (k = Len(polled) /\ txPc = "threw")
    /\ (txPc = "polling" /\ Len(polled) > 0) => Len(polled) <= maxRetries

C17_Witness ==
    /\ txPc = "returned"
    /\ maxRetries = DefaultMaxRetries
    /\ Len(polled) = maxRetries + 1

(***************************************************************************)
(* Claims about the PriceTracker (SpecTracker)                             *)
(***************************************************************************)
UpdatePriceCalled == trk.op = "updatePrice"

NoCallbackInvoked == \A k \in 1..Len(trk.invoked) : trk.invoked[k] = 0

EveryCallbackOnce ==
    /\ Len(trk.invoked) = callbacks
    /\ \A k \in 1..Len(trk.invoked) : trk.invoked[k] = 1

\* C19: on a tracker without a baseline, the first updatePrice makes the
\* observation the current and the baseline snapshot, returns false and
\* invokes no callback
C19_FirstObservation ==
    (UpdatePriceCalled /\ trk.preBaseline.isNull) =>
        /\ ~currentSnapshot.isNull
        /\ currentSnapshot.solanaPrice =
              (IF trk.chain = "solana" THEN trk.price ELSE 0)
        /\ currentSnapshot.basePrice =
              (IF trk.chain = "base" THEN trk.price ELSE 0)
        /\ baselineSnapshot = currentSnapshot
        /\ trk.ret = FALSE
        /\ NoCallbackInvoked

C19_Witness ==
    /\ UpdatePriceCalled
    /\ trk.preBaseline.isNull
    /\ trk.price = 102
    /\ callbacks > 0

\* |(current - baseline) / baseline * 100| >= threshold as the arithmetic of
\* the program evaluates it: a division by a baseline of 0 gives Infinity
\* for a price other than 0 and NaN for 0
RatioReaches(oldPrice, newPrice) ==
    IF oldPrice = 0 THEN newPrice # 0
    ELSE Abs(newPrice - oldPrice) * 100 >= threshold * oldPrice

\* the same, with a venue whose baseline price is 0 counted as unchanged
RatioReachesFromNonZero(oldPrice, newPrice) ==
    IF oldPrice = 0 THEN threshold <= 0
    ELSE Abs(newPrice - oldPrice) * 100 >= threshold * oldPrice

\* C20 as stated: after the first observation updatePrice returns true and
\* invokes every callback once if and only if
\* |(current - baseline) / baseline * 100| >= threshold for a venue after
\* the update; otherwise it returns false and invokes none
C20_ExceedsIffChange ==
    (UpdatePriceCalled /\ ~trk.preCurrent.isNull) =>
        LET exceeded ==
              \/ RatioReaches(baselineSnapshot.solanaPrice,
                              currentSnapshot.solanaPrice)
              \/ RatioReaches(baselineSnapshot.basePrice,
                              currentSnapshot.basePrice)
        IN /\ trk.ret = exceeded
           /\ exceeded => EveryCallbackOnce
           /\ ~exceeded => NoCallbackInvoked

\* C20 amended: the same, where a venue whose baseline price is 0 counts as
\* unchanged
C20_ExceedsIffChangeFromNonZero ==
    (UpdatePriceCalled /\ ~trk.preCurrent.isNull) =>
        LET exceeded ==
              \/ RatioReachesFromNonZero(baselineSnapshot.solanaPrice,
                                         currentSnapshot.solanaPrice)
              \/ RatioReachesFromNonZero(baselineSnapshot.basePrice,
                                         currentSnapshot.basePrice)
        IN /\ trk.ret = exceeded
           /\ exceeded => EveryCallbackOnce
           /\ ~exceeded => NoCallbackInvoked

C20_Witness ==
    /\ UpdatePriceCalled
    /\ ~trk.preCurrent.isNull
    /\ trk.ret
    /\ callbacks > 0
    /\ baselineSnapshot.solanaPrice = 100
    /\ currentSnapshot.solanaPrice = 102

(***************************************************************************)
(* Claims about the polling subscriptions (SpecFeed)                       *)
(***************************************************************************)
\* C18: a transaction id that was delivered to the callback is never
\* delivered again by a later poll, on either venue
C18_NoRedelivery ==
    /\ \A id \in DOMAIN delivered.solana : delivered.solana[id] <= 1
    /\ \A id \in DOMAIN delivered.base : delivered.base[id] <= 1

(***************************************************************************)
(* Claims about resetBaseline (SpecTracker)                                *)
(***************************************************************************)
ResetBaselineCalled == trk.op = "resetBaseline"

\* C21: resetBaseline with a current snapshot makes the baseline equal to
\* it, so that getCurrentChanges reports 0 for both venues; without a
\* current snapshot it changes nothing; an updatePrice after it leaves the
\* baseline alone, so that the changes are measured from the prices of the
\* last reset
C21_ResetMeasuresIncrement ==
    /\ (ResetBaselineCalled /\ ~trk.preCurrent.isNull) =>
          /\ currentSnapshot = trk.preCurrent
          /\ baselineSnapshot = currentSnapshot
          /\ ~GetCurrentChanges(currentSnapshot, baselineSnapshot).isNull
          /\ GetCurrentChanges(currentSnapshot, baselineSnapshot).solana.num = 0
          /\ GetCurrentChanges(currentSnapshot, baselineSnapshot).base.num = 0
    /\ (ResetBaselineCalled /\ trk.preCurrent.isNull) =>
          /\ currentSnapshot = trk.preCurrent
          /\ baselineSnapshot = trk.preBaseline
    /\ (UpdatePriceCalled /\ ~trk.preBaseline.isNull) =>
          baselineSnapshot = trk.preBaseline

\* a reset after the prices drifted from the baseline
C21_Witness ==
    /\ ResetBaselineCalled
    /\ ~trk.preCurrent.isNull
    /\ trk.preBaseline.solanaPrice = 100
    /\ trk.preCurrent.solanaPrice = 102

(***************************************************************************)
(* Claims about what starts a cycle (Spec)                                 *)
(***************************************************************************)
\* C30: an event starts an analysis cycle only when, with the event's
\* price, a venue's change since the baseline has reached the threshold
C30_TriggerOnlyOnMovement ==
    [][(lastEv'.seq # lastEv.seq /\ lastEv'.verdict = "started") =>
          HasExceededThreshold(currentSnapshot', baselineSnapshot')]_vars

(***************************************************************************)
(* Claims about the opportunity analyzer (SpecAnalyzer)                    *)
(***************************************************************************)
AnalysisDone == analysis.pc = "done"

SolverDone == solver.status = "done"

\* the spot gap |base - solana| / solana * 100 is below percent
SpotGapBelow(ms, percent) ==
    /\ ~BigIsZero(ms.solanaPriceUsd.num)
    /\ RatLess(Rat(BigMul(RatAbsDiff(ms.basePriceUsd, ms.solanaPriceUsd).num, Big(100)),
                   RatAbsDiff(ms.basePriceUsd, ms.solanaPriceUsd).den),
               Rat(BigMul(ms.solanaPriceUsd.num, Big(percent)),
                   ms.solanaPriceUsd.den))

\* C28: when the spot gap in percent is below the minimum profit threshold
\* analyzeOpportunity returns null, and the equilibrium search did not run
C28_SmallGapIsNull ==
    (AnalysisDone /\ SpotGapBelow(marketStats, analyzerConfig.MIN_PROFIT_THRESHOLD)) =>
        /\ analysis.result = "null"
        /\ solver.status = "idle"

\* a gap of 0.5% with a threshold of 2%
C28_Witness ==
    /\ AnalysisDone
    /\ analysis.round = 0
    /\ analyzerConfig.MIN_PROFIT_THRESHOLD = 2
    /\ SpotGapBelow(marketStats, 1)
    /\ ~RatEq(marketStats.basePriceUsd, marketStats.solanaPriceUsd)
    /\ analysis.result = "null"

\* the absolute minimum of the design: minProfitUsd: 1.0
minProfitUsd == 1

\* revUsd - costUsd >= usd
ProfitAtLeastUsd(est, usd) ==
    ~RatLess(est.revUsd, RatAdd(est.costUsd, Rat(Big(usd), Big(1))))

\* (revUsd - costUsd) / costUsd * 100 >= percent
ProfitAtLeastPercent(est, percent) ==
    ~RatLess(Rat(BigMul(est.revUsd.num, Big(100)), est.revUsd.den),
             Rat(BigMul(est.costUsd.num, Big(percent + 100)), est.costUsd.den))

\* C29: the profit of every opportunity analyzeOpportunity returns is at
\* least the minimum as an amount in USD and at least the minimum in percent
C29_ProfitAtLeastMinimum ==
    (AnalysisDone /\ analysis.result = "opportunity") =>
        /\ ProfitAtLeastUsd(analysis.estimate, minProfitUsd)
        /\ ProfitAtLeastPercent(analysis.estimate, analyzerConfig.MIN_PROFIT_THRESHOLD)

\* notionalCap / averagePrice in token units
CapInTokens(ms, cfg) ==
    LET sum == RatAdd(ms.solanaPriceUsd, ms.basePriceUsd)
    IN BigDiv(BigMul(BigMul(Big(2 * cfg.TRADE_SIZE_USD), BigPow10(tokenDecimals)),
                     sum.den), sum.num)

EightyPercent(reserve) == BigDiv(BigMul(reserve, Big(80)), Big(100))

\* the minimum of 80% of each venue's token reserve and of the cap
ClampBound(ms, cfg) ==
    BigMin(BigMin(EightyPercent(ms.virtualTokenReserves), EightyPercent(ms.tokenReserves)),
           CapInTokens(ms, cfg))

\* after a trade of size the venue bought on is still the cheaper one
CheaperAfter(ms, cfg, direction, size) ==
    LET post == CalculatePostArbitrageState(ms, size, direction, cfg.SOLANA_SOL_PRICE_USD)
    IN /\ post.finite
       /\ IF direction = "SOLANA_TO_BASE"
          THEN RatLess(post.solanaPriceUsd, post.basePriceUsd)
          ELSE RatLess(post.basePriceUsd, post.solanaPriceUsd)

\* C23: the size findEquilibriumTradeSize returns is never larger than the
\* bound; when the equilibrium is beyond the bound (the venue bought on is
\* still the cheaper one after a trade of the bound) the search that did
\* not reach the tolerance returns the bound
C23_ClampedToBound ==
    SolverDone =>
        /\ BigLeq(solver.size, ClampBound(marketStats, analyzerConfig))
        /\ (/\ ~solver.converged
            /\ ~BigIsZero(ClampBound(marketStats, analyzerConfig))
            /\ CheaperAfter(marketStats, analyzerConfig, solver.direction,
                            ClampBound(marketStats, analyzerConfig)))
           => solver.size = ClampBound(marketStats, analyzerConfig)

\* the search returned the bound and the equilibrium is beyond it
C23_Witness ==
    /\ SolverDone
    /\ ~solver.converged
    /\ ~BigIsZero(solver.size)
    /\ solver.size = ClampBound(marketStats, analyzerConfig)
    /\ CheaperAfter(marketStats, analyzerConfig, solver.direction, solver.size)

\* after a trade of size the two prices differ by less than percent of the
\* Solana price
PostGapBelow(ms, cfg, direction, size, percent) ==
    LET post == CalculatePostArbitrageState(ms, size, direction, cfg.SOLANA_SOL_PRICE_USD)
    IN /\ post.finite
       /\ SpotGapBelow(post, percent)

\* the reserves and the configuration of the verification scenario
VerificationScenario ==
    /\ analyzerConfig = VerificationConfig
    /\ marketStats.virtualSolReserves = BigMul(Big(30), BigPow10(9))
    /\ marketStats.virtualTokenReserves = BigPow10(15)
    /\ marketStats.usdcReserves = BigMul(Big(10000), BigPow10(6))
    /\ RatLess(marketStats.solanaPriceUsd, marketStats.basePriceUsd)
    /\ ~SpotGapBelow(marketStats, 5)
    /\ SpotGapBelow(marketStats, 6)

\* C27: with the bonding curve about 5% cheaper than the pool and ample
\* liquidity (threshold 1%, cap 1000 USD) analyzeOpportunity returns an
\* opportunity of a size above 0 that buys on Solana and sells on Base, and
\* the prices after that trade, from the original reserves, differ by less
\* than 5%
C27_VerificationScenarioConverges ==
    (AnalysisDone /\ analysis.round = 0 /\ VerificationScenario) =>
        /\ analysis.result = "opportunity"
        /\ ~BigIsZero(solver.size)
        /\ solver.direction = "SOLANA_TO_BASE"
        /\ PostGapBelow(marketStats, analyzerConfig, solver.direction, solver.size, 5)

\* the reserves of runVerification
C27_Witness ==
    /\ AnalysisDone
    /\ analysis.round = 0
    /\ VerificationScenario
    /\ marketStats.tokenReserves = BigMul(Big(2116402116), BigPow10(6))
    /\ analysis.result = "opportunity"

\* how many of the smallest sizes are probed
MaxProbe == 3

\* the sizes probed up to a limit: the smallest ones, the half of the limit,
\* the limit and the size below it
ProbeSizes(limit) ==
    { size \in {Big(n) : n \in 1..MaxProbe}
               \cup {BigDiv(limit, Big(2)), limit,
                     IF BigIsZero(limit) THEN limit ELSE BigSub(limit, Big(1))} :
        ~BigIsZero(size) /\ BigLeq(size, limit) }

\* a buy of size on the bonding curve and the sale of size on the reserves
\* after the buy
PumpFunRoundTrip(ms, size) ==
    LET bought == GetPumpFunEffectivePrice(ms.virtualSolReserves,
                      ms.virtualTokenReserves, size, TRUE)
        sold == GetPumpFunEffectivePrice(bought.newQuote, bought.newToken, size, FALSE)
    IN [paid |-> bought.amount, received |-> sold.amount,
        fees |-> BigAdd(bought.fee, sold.fee)]

\* the same on the constant-product pool
UniswapRoundTrip(ms, size) ==
    LET bought == GetUniswapV2EffectivePrice(ms.usdcReserves, ms.tokenReserves,
                      size, TRUE)
        sold == GetUniswapV2EffectivePrice(bought.newQuote, bought.newToken, size, FALSE)
    IN [paid |-> bought.amount, received |-> sold.amount,
        fees |-> BigAdd(bought.fee, sold.fee)]

\* paid - received >= fees
LossCoversFees(trip) == BigLeq(BigAdd(trip.received, trip.fees), trip.paid)

AnalysisCalled == analysis.pc = "called"

\* C25: buying a size and selling it at once on the same venue, the sale
\* priced on the reserves after the buy, loses at least the fees of the two
\* trades, on the bonding curve and on the pool, for the reserves of every
\* snapshot and the sizes up to 80% of the venue's token reserve
C25_NoFreeLunch ==
    AnalysisCalled =>
        /\ \A size \in ProbeSizes(EightyPercent(marketStats.virtualTokenReserves)) :
              LossCoversFees(PumpFunRoundTrip(marketStats, size))
        /\ \A size \in ProbeSizes(EightyPercent(marketStats.tokenReserves)) :
              LossCoversFees(UniswapRoundTrip(marketStats, size))

\* a round trip on each venue that pays fees
C25_Witness ==
    /\ AnalysisCalled
    /\ \E size \in ProbeSizes(EightyPercent(marketStats.virtualTokenReserves)) :
          /\ ~BigIsZero(PumpFunRoundTrip(marketStats, size).fees)
          /\ LossCoversFees(PumpFunRoundTrip(marketStats, size))
    /\ \E size \in ProbeSizes(EightyPercent(marketStats.tokenReserves)) :
          /\ ~BigIsZero(UniswapRoundTrip(marketStats, size).fees)
          /\ LossCoversFees(UniswapRoundTrip(marketStats, size))

\* the cap, in tokens, is within 80% of the token reserve of either venue
LiquidityAbsorbsCap(ms, cfg) ==
    /\ BigLeq(CapInTokens(ms, cfg), EightyPercent(ms.virtualTokenReserves))
    /\ BigLeq(CapInTokens(ms, cfg), EightyPercent(ms.tokenReserves))

\* after a trade of size the two prices differ by less than the tolerance
WithinToleranceAfter(ms, cfg, direction, size) ==
    LET post == CalculatePostArbitrageState(ms, size, direction, cfg.SOLANA_SOL_PRICE_USD)
    IN /\ post.finite
       /\ WithinTolerance(post.solanaPriceUsd, post.basePriceUsd)

\* C22 (as stated): for a snapshot with a gap of at least the threshold and
\* liquidity that absorbs the cap, findEquilibriumTradeSize returns within
\* its 200 iterations a size above 0 after which the prices differ by less
\* than the tolerance
C22_Converges ==
    (SolverDone /\ LiquidityAbsorbsCap(marketStats, analyzerConfig)) =>
        /\ ~BigIsZero(solver.size)
        /\ solver.converged
        /\ WithinToleranceAfter(marketStats, analyzerConfig, solver.direction, solver.size)

\* the prices cross between size and a size next to it
CrossesNextTo(ms, cfg, direction, size, bound) ==
    IF CheaperAfter(ms, cfg, direction, size)
    THEN /\ BigLess(size, bound)
         /\ ~CheaperAfter(ms, cfg, direction, BigAdd(size, Big(1)))
    ELSE \/ size = Big(1)
         \/ CheaperAfter(ms, cfg, direction, BigSub(size, Big(1)))

\* C22 (amended): with a bound of at least 1 the search returns a size
\* from 1 to the bound, and either the prices after it differ by less than
\* the tolerance, or the size is the bound and the venue bought on is
\* still the cheaper one, or the prices cross between the size and a size
\* next to it
C22_ConvergesOrBestWithinBound ==
    (SolverDone /\ ~BigIsZero(ClampBound(marketStats, analyzerConfig))) =>
        /\ ~BigIsZero(solver.size)
        /\ BigLeq(solver.size, ClampBound(marketStats, analyzerConfig))
        /\ solver.i <= iterations
        /\ solver.converged =>
              WithinToleranceAfter(marketStats, analyzerConfig, solver.direction, solver.size)
        /\ \/ WithinToleranceAfter(marketStats, analyzerConfig, solver.direction, solver.size)
           \/ /\ solver.size = ClampBound(marketStats, analyzerConfig)
              /\ CheaperAfter(marketStats, analyzerConfig, solver.direction, solver.size)
           \/ CrossesNextTo(marketStats, analyzerConfig, solver.direction, solver.size,
                            ClampBound(marketStats, analyzerConfig))

\* the search reached the tolerance before its budget was used up
C22_Witness ==
    /\ SolverDone
    /\ LiquidityAbsorbsCap(marketStats, analyzerConfig)
    /\ solver.converged
    /\ solver.i < iterations
    /\ ~BigIsZero(solver.size)
    /\ WithinToleranceAfter(marketStats, analyzerConfig, solver.direction, solver.size)

\* the analyzer has run again, on the reserves after the trade of the size
\* the solver returned
ReAnalysisDone == AnalysisDone /\ analysis.round = 1

\* C26 (as stated): the run on the post-trade reserves yields no new
\* opportunity
C26_NoNewOpportunity == ReAnalysisDone => analysis.result = "null"

\* C26 (amended): when the solver's size reached the tolerance, the run on
\* the post-trade reserves returns null at the spot check, the price
\* difference being below the threshold
C26_NoNewOpportunityAfterConvergence ==
    (ReAnalysisDone /\ analysis.prior.converged) =>
        /\ analysis.result = "null"
        /\ analysis.exit = "spot"
        /\ SpotGapBelow(marketStats, analyzerConfig.MIN_PROFIT_THRESHOLD)

\* the second run after a converged search that gave an opportunity
C26_Witness ==
    /\ ReAnalysisDone
    /\ analysis.prior.converged
    /\ analysis.prior.result = "opportunity"
    /\ analysis.result = "null"

\* the liquidity boundary: 80% of the smaller token reserve
LiquidityBoundary(ms) ==
    BigMin(EightyPercent(ms.virtualTokenReserves), EightyPercent(ms.tokenReserves))

\* the sizes that have a larger size within the boundary
SizesBelowBoundary(ms) ==
    IF BigIsZero(LiquidityBoundary(ms)) THEN {}
    ELSE ProbeSizes(BigSub(LiquidityBoundary(ms), Big(1)))

\* the price of the venue bought on and of the venue sold on
BuyPrice(post, direction) ==
    IF direction = "SOLANA_TO_BASE" THEN post.solanaPriceUsd ELSE post.basePriceUsd

SellPrice(post, direction) ==
    IF direction = "SOLANA_TO_BASE" THEN post.basePriceUsd ELSE post.solanaPriceUsd

\* one more token raises the price of the venue bought on and lowers the
\* price of the venue sold on
StrictlyMonotoneAt(ms, cfg, direction, size) ==
    LET post == CalculatePostArbitrageState(ms, size, direction,
                                            cfg.SOLANA_SOL_PRICE_USD)
        next == CalculatePostArbitrageState(ms, BigAdd(size, Big(1)), direction,
                                            cfg.SOLANA_SOL_PRICE_USD)
    IN /\ post.finite
       /\ next.finite
       /\ RatLess(BuyPrice(post, direction), BuyPrice(next, direction))
       /\ RatLess(SellPrice(next, direction), SellPrice(post, direction))

ReservesAboveOne(ms) ==
    /\ BigLess(Big(1), ms.virtualSolReserves)
    /\ BigLess(Big(1), ms.virtualTokenReserves)
    /\ BigLess(Big(1), ms.usdcReserves)
    /\ BigLess(Big(1), ms.tokenReserves)

SolPaidOut(ms, size) ==
    BigSub(ms.virtualSolReserves,
           GetPumpFunEffectivePrice(ms.virtualSolReserves, ms.virtualTokenReserves,
                                    size, FALSE).newQuote)

\* C31: the size of an opportunity stays within the real reserves of the
\* bonding curve: a buy there is of strictly less than realTokenReserves
\* and a sell there pays out at most realSolReserves
C31_WithinRealReserves ==
    (AnalysisDone /\ analysis.round = 0 /\ analysis.result = "opportunity") =>
        IF solver.direction = "SOLANA_TO_BASE"
        THEN BigLess(solver.size, marketStats.realTokenReserves)
        ELSE BigLeq(SolPaidOut(marketStats, solver.size),
                    marketStats.realSolReserves)

(***************************************************************************)
(* Claims about the simulated legs (SpecLegs)                              *)
(***************************************************************************)
\* two simulations of the Opportunity settled, both with an accepted
\* Solana leg
SimulatedTwice ==
    /\ legSim.report.run
    /\ legSim.prior.run
    /\ legSim.report.solanaOk
    /\ legSim.prior.solanaOk

\* C32: two simulations of the same Opportunity against different current
\* reserves of a venue report different amounts for that venue's leg
C32_LegsFollowVenueState ==
    SimulatedTwice =>
        /\ (legSim.report.venue.virtualSolReserves
                # legSim.prior.venue.virtualSolReserves)
              => legSim.report.solanaAmount # legSim.prior.solanaAmount
        /\ (legSim.report.venue.usdcReserves # legSim.prior.venue.usdcReserves)
              => legSim.report.baseAmount # legSim.prior.baseAmount

(***************************************************************************)
(* More claims about the opportunity analyzer (SpecAnalyzer)               *)
(***************************************************************************)
\* the spot price of the bonding curve in the snapshot is its reserves
\* converted with solPriceUsd
SpotConvertedWith(ms, solPriceUsd) ==
    RatEq(ms.solanaPriceUsd,
          MarketStats(ms.virtualSolReserves, ms.virtualTokenReserves,
                      ms.usdcReserves, ms.tokenReserves, solPriceUsd).solanaPriceUsd)

\* the search of the first run on a snapshot has started
SearchStarted == analysis.round = 0 /\ solver.status # "idle"

\* C33: the SOL price that converts the spot price of the snapshot, from
\* which the direction is chosen, is the one that converts the post-trade
\* prices in the search and the amounts of the profit projection
C33_OneReferencePrice ==
    SearchStarted =>
        SpotConvertedWith(marketStats, analyzerConfig.SOLANA_SOL_PRICE_USD)

(***************************************************************************)
(* More claims about the PriceTracker (SpecTracker)                        *)
(***************************************************************************)
\* updatePrice was called on a tracker that had a current snapshot
UpdatedAfterInit == UpdatePriceCalled /\ ~trk.preCurrent.isNull

\* C34: after initialisation updatePrice(venue, p) sets that venue's
\* current price and leaves the other venue's current price and the whole
\* baseline snapshot as they were, whether or not the threshold is exceeded
C34_UpdateTouchesOneVenue ==
    UpdatedAfterInit =>
        /\ baselineSnapshot = trk.preBaseline
        /\ IF trk.chain = "solana"
           THEN /\ currentSnapshot.solanaPrice = trk.price
                /\ currentSnapshot.basePrice = trk.preCurrent.basePrice
           ELSE /\ currentSnapshot.basePrice = trk.price
                /\ currentSnapshot.solanaPrice = trk.preCurrent.solanaPrice

\* an update of Solana that exceeds the threshold while Base has a price
C34_Witness ==
    /\ UpdatedAfterInit
    /\ trk.chain = "solana"
    /\ trk.ret
    /\ trk.preCurrent.basePrice > 0
    /\ currentSnapshot.solanaPrice # trk.preCurrent.solanaPrice
    /\ baselineSnapshot # currentSnapshot

\* the price of a venue in a snapshot
PriceOf(snapshot, chain) ==
    IF chain = "solana" THEN snapshot.solanaPrice ELSE snapshot.basePrice

OtherChain(chain) == IF chain = "solana" THEN "base" ELSE "solana"

\* updatePrice was called for a venue whose baseline price is 0 while the
\* other venue still has its baseline price
UpdatedUnobservedAlone ==
    /\ UpdatePriceCalled
    /\ ~trk.preBaseline.isNull
    /\ PriceOf(trk.preBaseline, trk.chain) = 0
    /\ PriceOf(trk.preCurrent, OtherChain(trk.chain))
          = PriceOf(trk.preBaseline, OtherChain(trk.chain))

\* C39: while the baseline holds price 0 for a venue, the venue's change
\* is reported as 0 and an update of that venue alone signals no threshold
\* crossing, whatever the price
C39_UnobservedVenueNeverSignals ==
    UpdatedUnobservedAlone =>
        /\ ~trk.ret
        /\ \A k \in 1..Len(trk.invoked) : trk.invoked[k] = 0
        /\ IF trk.chain = "solana"
           THEN GetCurrentChanges(currentSnapshot, baselineSnapshot).solana.num = 0
           ELSE GetCurrentChanges(currentSnapshot, baselineSnapshot).base.num = 0

\* Base appears with a price while the baseline has 0 for it, with a
\* callback registered
C39_Witness ==
    /\ UpdatedUnobservedAlone
    /\ trk.chain = "base"
    /\ trk.price = 102
    /\ trk.preBaseline.solanaPrice = 100
    /\ Len(trk.invoked) > 0
    /\ currentSnapshot.basePrice = 102
    /\ baselineSnapshot.basePrice = 0

(***************************************************************************)
(* Claims about the PriceFetcher (SpecPrices)                              *)
(***************************************************************************)
RequestFailed == priceCall.op = "failure"

\* C37 (as stated): once a price has been cached fetchPrices never fails:
\* it throws only when no price was ever cached
C37_NeverFailsOnceCached ==
    (RequestFailed /\ priceCall.everCached) => priceCall.outcome # "threw"

\* C37 (amended): while the cache holds prices, a failed refresh returns
\* the cached prices and leaves the cache and its timestamp as they were;
\* fetchPrices throws only when the cache is empty; and a call with an
\* expired or empty cache sends a request
C37_StaleWhileCached ==
    /\ (RequestFailed /\ ~priceCall.preCache.isNull) =>
          /\ priceCall.outcome = "stale"
          /\ priceCall.prices = priceCall.preCache
          /\ priceCache = priceCall.preCache
          /\ lastFetchTime = priceCall.preFetchTime
    /\ (RequestFailed /\ priceCall.outcome = "threw") => priceCall.preCache.isNull
    /\ (priceCall.op = "fetchPrices"
            /\ priceCall.at - priceCall.preFetchTime >= cacheTimeout) =>
          priceCall.outcome = "requested"

\* a refresh fails while the cached prices are older than the TTL
C37_Witness ==
    /\ RequestFailed
    /\ ~priceCall.preCache.isNull
    /\ priceClock - lastFetchTime >= cacheTimeout
    /\ priceCall.outcome = "stale"
    /\ priceCall.prices.sol = 150

\* the search has returned
SearchReturned == analysis.round = 0 /\ solver.status = "done"

EvaluatedSizes == {e.size : e \in solver.evaluated}

\* C35: findEquilibriumTradeSize returns 0 or a size it evaluated; when the
\* search ends without meeting the tolerance the returned size is the
\* evaluated candidate with the smallest post-trade price difference
C35_ReturnsEvaluatedBest ==
    SearchReturned =>
        /\ BigIsZero(solver.size) \/ solver.size \in EvaluatedSizes
        /\ ~solver.converged =>
              \A e \in solver.evaluated :
                 \E r \in solver.evaluated :
                    /\ r.size = solver.size
                    /\ ~RatLess(e.priceDiff, r.priceDiff)

\* the budget was used up with several sizes evaluated, and the size
\* returned is not the last one the loop looked at
C35_Witness ==
    /\ SearchReturned
    /\ ~solver.converged
    /\ solver.i = iterations
    /\ Cardinality(solver.evaluated) >= 3
    /\ solver.size \in EvaluatedSizes
    /\ solver.size # BigDiv(BigAdd(solver.low, solver.high), Big(2))

\* the product of the reserves after the trade is not below the product
\* before it, on the bonding curve and in the pool
ProductKept(ms, post) ==
    /\ BigLeq(BigMul(ms.virtualSolReserves, ms.virtualTokenReserves),
              BigMul(post.newSolVSol, post.newSolVToken))
    /\ BigLeq(BigMul(ms.usdcReserves, ms.tokenReserves),
              BigMul(post.newBaseUsdc, post.newBaseToken))

\* C36: the reserves computed for every candidate trade keep the constant
\* product from falling, newBase * newQuote >= base * quote, for the buy
\* leg and for the sell leg
C36_ProductNeverFalls ==
    SearchStarted =>
        \A e \in solver.evaluated :
            ProductKept(marketStats,
                        CalculatePostArbitrageState(marketStats, e.size,
                            solver.direction,
                            analyzerConfig.SOLANA_SOL_PRICE_USD))

(***************************************************************************)
(* More claims about the EventCoordinator (Spec)                           *)
(***************************************************************************)
EventHandled == lastEv.chain # "none"

\* C38 (as stated): for every trade event of either venue the tracker is
\* updated with the event's price before the trigger is evaluated, also
\* when the trigger is skipped, and the snapshot handed to the callback
\* contains the price of the event that started the cycle
C38_EveryEventUpdatesFirst ==
    EventHandled =>
        /\ ~currentSnapshot.isNull
        /\ PriceOf(currentSnapshot, lastEv.chain) = lastEv.price
        /\ lastEv.verdict = "started" =>
              PriceOf(lastEv.handed, lastEv.chain) = lastEv.price

\* C38 (amended): the same for every Solana trade event and for every Base
\* swap event whose amounts give a positive price; only a Base swap event
\* gives none
C38_PricedEventUpdatesFirst ==
    /\ (EventHandled /\ lastEv.price > 0) =>
          /\ ~currentSnapshot.isNull
          /\ PriceOf(currentSnapshot, lastEv.chain) = lastEv.price
          /\ lastEv.verdict = "started" =>
                /\ PriceOf(lastEv.handed, lastEv.chain) = lastEv.price
                /\ lastEv.handed = currentSnapshot
    /\ (EventHandled /\ lastEv.price = 0) => lastEv.chain = "base"

\* a Base swap at 2 USDC per token starts a cycle while the tracker holds
\* a Solana price of 1: the callback receives both
C38_Witness ==
    /\ lastEv.chain = "base"
    /\ lastEv.verdict = "started"
    /\ lastEv.price = 2
    /\ lastEv.handed.basePrice = 2
    /\ lastEv.handed.solanaPrice = 1
    /\ currentSnapshot.basePrice = 2

(***************************************************************************)
(* Claims about the polling subscription (SpecStop)                        *)
(***************************************************************************)
\* C40: after unsubscribe() of the polling subscription has returned the
\* event callback is not invoked again and no analysis cycle is started,
\* also not by a poll that was in progress when unsubscribe was called
C40_QuietAfterUnsubscribe ==
    stopLog.stopped => (stopLog.callbacks = 0 /\ stopLog.cycles = 0)

====
